---- MODULE Spec2Model ----
(***************************************************************************)
(* Per-vendor acquisition pipeline of the car-software downloader:         *)
(* BaseProvider / BMWProvider / VWProvider (login, discovery, version      *)
(* policy, transfer with stale-version cleanup, the continuous run loop    *)
(* and the one-shot check) and MetadataManager (aggregate state file).     *)
(*                                                                         *)
(* Spec     one provider instance (the vendor is chosen in Init) driven by *)
(*          run() or runSingleCheck(); page content, the network and the   *)
(*          file system's failures are the environment, drawn with \E.     *)
(* SpecAgg  two vendor loops calling MetadataManager.updateProviderMetadata *)
(*          whose load and save steps interleave at the await points.      *)
(* SpecDash several calls of run() / runSingleCheck() in flight on one     *)
(*          provider instance, started from the dashboard.                 *)
(* SpecCat  categorizeDownloads of both vendors applied to lists of        *)
(*          candidate links under the configured allow-lists.              *)
(* SpecSig  the SIGINT / SIGTERM handler of the manager running beside the *)
(*          vendor loops and their transfers.                              *)
(* SpecLoad loadMetadata and loadGlobalMetadata applied to state files     *)
(*          that are missing, unparseable or well-formed.                  *)
(* SpecUrl  extractCleanFilename applied to advertised URLs.               *)
(* SpecVerify the verification loop of VWProvider.login.                   *)
(* SpecName VWProvider.downloadFile's choice of the target file name.      *)
(* SpecVersion VWProvider.extractVersion applied to file names and URLs.   *)
(* SpecScan the page scan of findDownloads applied to links and buttons.   *)
(* SpecBase getBaseFileName applied to versioned file names.               *)
(* SpecRepeat checks that follow each other against a portal that shows    *)
(*          the same downloads, with every transfer stored.                *)
(* SpecCleanup cleanupOldVersions applied to download directories.         *)
(***************************************************************************)
EXTENDS Integers, Sequences, FiniteSets, TLC

\* ------------------------------------------------------------------ bounds
\* The clock: every cycle (run loop iteration or one-shot check) starts one
\* tick later; no cycle starts at MaxTime.
MaxTime == 2
\* Updates each vendor loop pushes to the aggregate file under SpecAgg.
MaxUpdates == 3
\* SpecDash: the calls of runProvider / runSingleCheck that can be in flight
\* at once, and the accepted artifacts of one of their cycles.
MaxTasks == 2
MaxAccepted == 2
\* SpecCat: the candidate links one call of categorizeDownloads is given.
MaxCandidates == 3
\* SpecScan: the links and buttons of the page one scan goes over.
MaxElements == 2

\* ----------------------------------------------------------------- strings
Ch(s, i) == IF i >= 1 /\ i <= Len(s) THEN SubSeq(s, i, i) ELSE ""

IsDigit(c) == c \in {"0", "1", "2", "3", "4", "5", "6", "7", "8", "9"}

\* The index just after the longest run of digits of s that starts at i
\* (i itself when s[i] is no digit): what \d+ consumes before a non-digit.
RECURSIVE DigitsEnd(_, _)
DigitsEnd(s, i) == IF IsDigit(Ch(s, i)) THEN DigitsEnd(s, i + 1) ELSE i

\* The index just after exactly n digits starting at i, or 0: \d{n}.
RECURSIVE DigitsExact(_, _, _)
DigitsExact(s, i, n) ==
  IF n = 0 THEN i
  ELSE IF IsDigit(Ch(s, i)) THEN DigitsExact(s, i + 1, n - 1) ELSE 0

\* Largest index of character c in s, 0 when absent: lastIndexOf.
RECURSIVE LastIndexFrom(_, _, _)
LastIndexFrom(s, c, i) ==
  IF i = 0 THEN 0 ELSE IF Ch(s, i) = c THEN i ELSE LastIndexFrom(s, c, i - 1)

LastIndexOf(s, c) == LastIndexFrom(s, c, Len(s))

\* Smallest index of character c in s, 0 when absent: indexOf.
RECURSIVE IndexFrom(_, _, _)
IndexFrom(s, c, i) ==
  IF i > Len(s) THEN 0 ELSE IF Ch(s, i) = c THEN i ELSE IndexFrom(s, c, i + 1)

IndexOf(s, c) == IndexFrom(s, c, 1)

\* s.includes(t)
Includes(s, t) ==
  \E i \in 1..(Len(s) - Len(t) + 1) : SubSeq(s, i, i + Len(t) - 1) = t

\* s.endsWith(t)
EndsWith(s, t) ==
  Len(s) >= Len(t) /\ SubSeq(s, Len(s) - Len(t) + 1, Len(s)) = t

\* path.extname: from the last '.' to the end; empty when there is no '.'
\* or the only '.' is the first character.
ExtName(f) ==
  LET d == LastIndexOf(f, ".")
  IN IF d <= 1 THEN "" ELSE SubSeq(f, d, Len(f))

\* path.basename(f, ext) of a name without directory part.
BaseName(f, ext) ==
  IF ext # "" /\ EndsWith(f, ext) /\ Len(f) > Len(ext)
  THEN SubSeq(f, 1, Len(f) - Len(ext))
  ELSE f

\* The four patterns of getBaseFileName, each anchored at an index i.
MatchDot3(s, i) ==      \* /_\d+\.\d+\.\d+.*$/
  /\ Ch(s, i) = "_"
  /\ LET a == DigitsEnd(s, i + 1)
         b == DigitsEnd(s, a + 1)
     IN /\ a > i + 1 /\ Ch(s, a) = "."
        /\ b > a + 1 /\ Ch(s, b) = "."
        /\ DigitsEnd(s, b + 1) > b + 1

MatchIsoDate(s, i) ==   \* /_\d{4}-\d{2}-\d{2}.*$/
  /\ Ch(s, i) = "_"
  /\ LET a == DigitsExact(s, i + 1, 4)
         b == IF a = 0 THEN 0 ELSE DigitsExact(s, a + 1, 2)
     IN /\ a # 0 /\ Ch(s, a) = "-"
        /\ b # 0 /\ Ch(s, b) = "-"
        /\ DigitsExact(s, b + 1, 2) # 0

MatchDash3(s, i) ==     \* /_\d+-\d+-\d+.*$/
  /\ Ch(s, i) = "_"
  /\ LET a == DigitsEnd(s, i + 1)
         b == DigitsEnd(s, a + 1)
     IN /\ a > i + 1 /\ Ch(s, a) = "-"
        /\ b > a + 1 /\ Ch(s, b) = "-"
        /\ DigitsEnd(s, b + 1) > b + 1

MatchDot2(s, i) ==      \* /_\d+\.\d+.*$/
  /\ Ch(s, i) = "_"
  /\ LET a == DigitsEnd(s, i + 1)
     IN /\ a > i + 1 /\ Ch(s, a) = "."
        /\ DigitsEnd(s, a + 1) > a + 1

\* s.replace(/<pattern>.*$/, ''): s cut at the leftmost of the indices (hits)
\* at which the pattern matches, if any.
CutAt(s, hits) ==
  IF hits = {} THEN s
  ELSE SubSeq(s, 1, (CHOOSE i \in hits : \A j \in hits : i <= j) - 1)

\* getBaseFileName: the name without its extension, then the four replace
\* calls in the order of the code (each step's value is the one element of
\* its set).
getBaseFileName(fileName) ==
  LET b0 == {BaseName(fileName, ExtName(fileName))}
      b1 == {CutAt(s, {i \in 1..Len(s) : MatchDot3(s, i)}) : s \in b0}
      b2 == {CutAt(s, {i \in 1..Len(s) : MatchIsoDate(s, i)}) : s \in b1}
      b3 == {CutAt(s, {i \in 1..Len(s) : MatchDash3(s, i)}) : s \in b2}
      b4 == {CutAt(s, {i \in 1..Len(s) : MatchDot2(s, i)}) : s \in b3}
  IN CHOOSE s \in b4 : TRUE

\* String.prototype.toLowerCase on ASCII letters.
LowerChar(c) ==
  CASE c = "A" -> "a" [] c = "B" -> "b" [] c = "C" -> "c" [] c = "D" -> "d"
    [] c = "E" -> "e" [] c = "F" -> "f" [] c = "G" -> "g" [] c = "H" -> "h"
    [] c = "I" -> "i" [] c = "J" -> "j" [] c = "K" -> "k" [] c = "L" -> "l"
    [] c = "M" -> "m" [] c = "N" -> "n" [] c = "O" -> "o" [] c = "P" -> "p"
    [] c = "Q" -> "q" [] c = "R" -> "r" [] c = "S" -> "s" [] c = "T" -> "t"
    [] c = "U" -> "u" [] c = "V" -> "v" [] c = "W" -> "w" [] c = "X" -> "x"
    [] c = "Y" -> "y" [] c = "Z" -> "z" [] OTHER -> c

RECURSIVE ToLowerFrom(_, _)
ToLowerFrom(s, i) ==
  IF i > Len(s) THEN "" ELSE LowerChar(Ch(s, i)) \o ToLowerFrom(s, i + 1)

toLowerCase(s) == ToLowerFrom(s, 1)

\* s.replace(t, ''): the first occurrence of t removed.
RemoveFirst(s, t) ==
  LET hits == {i \in 1..(Len(s) - Len(t) + 1) : SubSeq(s, i, i + Len(t) - 1) = t}
  IN IF hits = {} THEN s
     ELSE LET i == CHOOSE k \in hits : \A j \in hits : k <= j
          IN SubSeq(s, 1, i - 1) \o SubSeq(s, i + Len(t), Len(s))

\* decodeURIComponent, for the escapes the URLs of this model hold.
PercentChar(hex) ==
  CASE hex = "20" -> " " [] hex = "25" -> "%" [] hex = "2F" -> "/"
    [] hex = "28" -> "(" [] hex = "29" -> ")" [] OTHER -> ""

\* Every '%' of s from index i on starts a known escape; decodeURIComponent
\* throws a URIError on a malformed one.
RECURSIVE WellEscapedFrom(_, _)
WellEscapedFrom(s, i) ==
  IF i > Len(s) THEN TRUE
  ELSE IF Ch(s, i) # "%" THEN WellEscapedFrom(s, i + 1)
  ELSE /\ i + 2 <= Len(s)
       /\ PercentChar(SubSeq(s, i + 1, i + 2)) # ""
       /\ WellEscapedFrom(s, i + 3)

RECURSIVE DecodedFrom(_, _)
DecodedFrom(s, i) ==
  IF i > Len(s) THEN ""
  ELSE IF Ch(s, i) # "%" THEN Ch(s, i) \o DecodedFrom(s, i + 1)
  ELSE PercentChar(SubSeq(s, i + 1, i + 2)) \o DecodedFrom(s, i + 3)

decodeURIComponent(s) == DecodedFrom(s, 1)

\* extractCleanFilename: the last '/'-separated part of the URL, cut at the
\* first '?', percent-decoded, then with a remaining '&signed=true' removed;
\* null ("" here) when the result is empty or 'download', or when the
\* decoding throws.
extractCleanFilename(url) ==
  LET seg == SubSeq(url, LastIndexOf(url, "/") + 1, Len(url))
      q == IndexOf(seg, "?")
      noQuery == IF q = 0 THEN seg ELSE SubSeq(seg, 1, q - 1)
      clean == RemoveFirst(decodeURIComponent(noQuery), "&signed=true")
  IN IF ~WellEscapedFrom(noQuery, 1) THEN ""
     ELSE IF clean # "" /\ clean # "download" THEN clean ELSE ""

getFileExtension(url) ==
  LET urlLower == toLowerCase(url)
  IN IF Includes(urlLower, ".exe") THEN ".exe"
     ELSE IF Includes(urlLower, ".zip") THEN ".zip"
     ELSE IF Includes(urlLower, ".istapdata") THEN ".istapdata"
     ELSE ".bin"

\* ------------------------------------------------------------ configuration
Vendors == {"bmw", "vw"}

\* The application surfaces checkForUpdates visits, in order: BMW checks
\* ISTA-P and then ISTA-Next; VW has one download page.
Surfaces(v) == IF v = "bmw" THEN <<"ista-p", "ista-next">> ELSE <<"odis">>

\* downloadCategories, cut to the categories the catalog below offers.
SurfaceCategories(app) ==
  CASE app = "ista-p" -> {"installer"}
    [] app = "ista-next" -> {"client"}
    [] app = "odis" -> {"installation", "update"}

Art(app, cat, url, orig, ver) ==
  [appType |-> app, category |-> cat, url |-> url,
   originalFilename |-> orig, version |-> ver]

\* What categorizeDownloads can return for a page: the categorized artifacts a
\* portal may advertise, each with the version extractVersion finds in it.
\* BMW artifacts carry no originalFilename; VW's is the file name on the page.
Catalog(v) ==
  IF v = "bmw"
  THEN { Art("ista-p", "installer",
             "https://h/api/v2/downloads/Tool_1.0.0.exe", "", "1.0.0"),
         Art("ista-p", "installer",
             "https://h/api/v2/downloads/Tool_0.9.0.exe", "", "0.9.0"),
         Art("ista-p", "installer",
             "https://h/api/v2/downloads/Tool.exe?sig=abc&signed=true", "",
             "unknown"),
         Art("ista-next", "client",
             "https://h/api/v2/downloads/2.0.0/Client.exe", "", "2.0.0"),
         Art("ista-next", "client",
             "https://h/api/v2/downloads/2.1.0/Client.exe", "", "2.1.0") }
  ELSE { Art("odis", "update", "https://v/DownloadODIS?id=1",
             "ODIS_25_1_0_20250820.zip", "25_1_0_20250820"),
         Art("odis", "update", "https://v/DownloadODIS?id=2",
             "ODIS_25_2_0_20251020.zip", "25_2_0_20251020"),
         Art("odis", "installation", "https://v/DownloadODIS?id=3",
             "Setup_1.0.0.exe", "1.0.0"),
         Art("odis", "installation", "https://v/DownloadODIS?id=4",
             "ODIS-Service Installation", "unknown") }

Categories == {"installer", "client", "installation", "update"}

\* ------------------------------------------------------------------- state
VARIABLES
  vendor,       \* providerName of the provider instance
  pc,           \* where the instance's run() / runSingleCheck() stands
  mode,         \* "none", "run" (run loop) or "single" (runSingleCheck)
  firstCycle,   \* run(): the initial check, outside the loop's try
  now,          \* the clock read by new Date()
  browser,      \* "none", "open", "closed": this.browser
  sessionLive,  \* the portal holds an authenticated session for this.page
  isLoggedIn,   \* this.isLoggedIn
  metadata,     \* this.metadata: [lastUpdate, downloads]
  vendorFile,   \* <vendor>/<vendor>_metadata.json
  globalFile,   \* global_metadata.json
  files,        \* artifact files in this.downloadDir
  surface,      \* index into Surfaces(vendor) of the surface being checked
  updates,      \* accepted artifacts still to download on this surface
  succeeded,    \* successfulUpdates of this surface
  failed,       \* artifacts whose category's latest transfer was theirs and failed
  lastPolicy,   \* the isNewVersion decisions of the last discovery pass
  lastScan,     \* "none", or how the last step's findDownloads scan ended
  lastLogin,    \* the login() call of the last step, if it made one
  lastDl,       \* the downloadFile call of the last step, if it was one
  lastNotify,   \* the new-version notification of the last step, if any
  aggPc,        \* SpecAgg: each vendor loop's place in updateProviderMetadata
  aggLocal,     \* SpecAgg: the globalMetadata object each call holds
  aggSeq,       \* SpecAgg: number of updates each vendor loop has started
  runningProviders, \* SpecDash: CarDownloaderManager.runningProviders
  tasks,        \* SpecDash: the calls in flight on the provider instance
  exited,       \* SpecDash: process.exit was called
  catPc,        \* SpecCat: "idle", "input" (before the call) or "done"
  catAppType,   \* SpecCat: the surface whose links are categorized
  catFilter,    \* SpecCat: the allow-list configured for the surface
  catDownloads, \* SpecCat: the candidate links, in the order found
  categorized,  \* SpecCat: what categorizeDownloads returned
  shutdown,     \* SpecSig: "none", "cleaning" (handler awaits cleanup), "exited"
  toClean,      \* SpecSig: providers manager.cleanup() has still to visit
  browsers,     \* SpecSig: each provider's this.browser
  transfers,    \* SpecSig: each provider's downloadFile transfer
  diskVendor,   \* SpecLoad: the vendor state file on disk
  diskGlobal,   \* SpecLoad: the aggregate file on disk
  held,         \* SpecLoad: this.metadata of the provider
  loaded,       \* SpecLoad: what the load returned or assigned
  urlGiven,     \* SpecUrl: the URL handed to extractCleanFilename
  extracted,    \* SpecUrl: what extractCleanFilename returned
  verifyPc,     \* SpecVerify: "idle", "check" (in the loop), "done"
  attempts,     \* SpecVerify: login()'s attempts counter
  loginSuccess, \* SpecVerify: login()'s loginSuccess
  pageSeen,     \* SpecVerify: what the latest checkLoginStatus met
  currentUrl,   \* SpecVerify: page.url() read by the fallback, "" before
  loginResult,  \* SpecVerify: "none", or what login() returned
  callArgs,     \* pure functions: the arguments of the call under observation
  callResult,   \* pure functions: [done, value] of that call
  portal        \* repeated checks: what each surface of the portal shows

mainVars == <<vendor, pc, mode, firstCycle, now, browser, sessionLive,
              isLoggedIn, metadata, vendorFile, globalFile, files, surface,
              updates, succeeded, failed, lastPolicy, lastScan, lastLogin,
              lastDl, lastNotify>>
aggVars == <<aggPc, aggLocal, aggSeq>>
dashVars == <<runningProviders, tasks, exited>>
catVars == <<catPc, catAppType, catFilter, catDownloads, categorized>>
sigVars == <<shutdown, toClean, browsers, transfers>>
loadVars == <<diskVendor, diskGlobal, held, loaded>>
urlVars == <<urlGiven, extracted>>
verifyVars == <<verifyPc, attempts, loginSuccess, pageSeen, currentUrl,
                loginResult>>
callVars == <<callArgs, callResult>>
repeatVars == <<portal>>
vars == <<mainVars, aggVars, dashVars, catVars, sigVars, loadVars, urlVars,
          verifyVars, callVars, repeatVars>>

\* ------------------------------------------------------------ state values
EmptyMap == [c \in {} |-> 0]

Put(f, k, v) == [x \in DOMAIN f \cup {k} |-> IF x = k THEN v ELSE f[x]]

Drop(f, k) == [x \in DOMAIN f \ {k} |-> f[x]]

\* loadMetadata's default: { lastUpdate: null, downloads: {} } (0 is null).
EmptyMetadata == [lastUpdate |-> 0, downloads |-> EmptyMap]

MissingFile == [exists |-> FALSE, lastUpdate |-> 0, downloads |-> EmptyMap]

\* JSON.stringify(this.metadata) written to the vendor's state file.
WrittenFile(m) ==
  [exists |-> TRUE, lastUpdate |-> m.lastUpdate, downloads |-> m.downloads]

\* loadGlobalMetadata's default: { providers: {}, lastGlobalUpdate: null }.
EmptyGlobal == [providers |-> EmptyMap, lastGlobalUpdate |-> 0]

NoLogin == [called |-> FALSE, lost |-> FALSE, entry |-> FALSE,
            noop |-> FALSE, failAt |-> "", mailFails |-> FALSE,
            result |-> FALSE, notified |-> 0, threw |-> FALSE]

NoDl == [called |-> FALSE, category |-> "", fileName |-> "", version |-> "",
         outcome |-> "", result |-> FALSE, prevFileName |-> "",
         prevOnDisk |-> FALSE]

NoNotify == [sent |-> FALSE, updates |-> <<>>, delivery |-> "none"]

MetaFileName(v) == v \o "_metadata.json"

\* --------------------------------------------------------- version policy
\* A version policy that rejects "unknown" before it looks at the record.
isNewVersionUnknownFirst(m, category, version) ==
  IF version = "unknown" THEN FALSE
  ELSE ~(category \in DOMAIN m.downloads)
       \/ version # m.downloads[category].version

\* isNewVersion(category, version) against this.metadata (m).
isNewVersion(m, category, version) ==
  LET hasLast == category \in DOMAIN m.downloads
                 /\ m.downloads[category].version # ""
  IN IF ~hasLast THEN TRUE
     ELSE IF version = "unknown" THEN FALSE
     ELSE version # m.downloads[category].version

\* ------------------------------------------------------- transfer manager
\* The first lines of downloadFile: the target file name.  BaseProvider (BMW)
\* starts from the URL; VWProvider starts from the originalFilename.
NeedsFallback(fileName) ==
  fileName = "" \/ fileName = "download" \/ Len(fileName) < 5

FallbackFileName(d) ==
  d.category \o (IF d.version # "unknown" THEN "_" \o d.version ELSE "")
             \o getFileExtension(d.url)

TargetFileName(v, d) ==
  LET first == IF v = "vw" THEN d.originalFilename
               ELSE extractCleanFilename(d.url)
      second == IF v = "vw" /\ NeedsFallback(first)
                THEN extractCleanFilename(d.url) ELSE first
  IN IF NeedsFallback(second) THEN FallbackFileName(d) ELSE second

\* The target file name of every catalog artifact, computed once.
\* BMW downloads whose file names come close to each other: the ISTA-P
\* installer and the ISTA-Next client are both recognised by "istaoss" in the
\* URL.
CleanupCatalog ==
  { Art("ista-p", "installer",
        "https://h/api/v2/downloads/ISTAOSS_1.0.0.exe", "", "1.0.0"),
    Art("ista-p", "installer",
        "https://h/api/v2/downloads/Tool_1.0.0.exe", "", "1.0.0"),
    Art("ista-next", "client",
        "https://h/api/v2/downloads/ISTAOSS_2.0.0.exe", "", "2.0.0"),
    Art("ista-next", "client",
        "https://h/api/v2/downloads/2.1.0/Client.exe", "", "2.1.0") }

TargetNames ==
  [v \in Vendors |-> [d \in Catalog(v) |-> TargetFileName(v, d)]]

\* Every name a directory entry can have: the target names and the vendors'
\* state files; their getBaseFileName and path.extname, computed once.
KnownNames ==
  UNION { {TargetNames[v][d] : d \in Catalog(v)} \cup {MetaFileName(v)} :
          v \in Vendors }
  \cup {TargetFileName("bmw", d) : d \in CleanupCatalog}

BaseFileNames == [f \in KnownNames |-> getBaseFileName(f)]

ExtNames == [f \in KnownNames |-> ExtName(f)]

\* MetadataManager.updateProviderMetadata between its load and its save:
\* the loaded object g with the provider's entry replaced.
WithProvider(g, v, providerData, t) ==
  [providers |-> Put(g.providers, v,
                     [lastUpdate |-> t, downloads |-> providerData.downloads]),
   lastGlobalUpdate |-> t]

\* What a state-file write does to the pair (vendor file, aggregate file) of
\* a handler that writes this.metadata = m to both: w = "ok", or the write
\* that throws ("vendorFail": fs.writeFile of the vendor file;
\* "globalFail": the aggregate's save, after the vendor file was written).
WriteOutcomes == {"ok", "vendorFail", "globalFail"}

VendorFileAfter(vf, m, w) == IF w = "vendorFail" THEN vf ELSE WrittenFile(m)

GlobalFileAfter(g, v, m, t, w) ==
  IF w = "ok" THEN WithProvider(g, v, m, t) ELSE g

\* readdir(this.downloadDir): the artifact files and the vendor's state file.
DirListing(v, fs, vf) == fs \cup (IF vf.exists THEN {MetaFileName(v)} ELSE {})

\* cleanupSimilarFiles: the directory entries it unlinks.
SimilarFiles(listing, newFileName) ==
  { file \in listing :
      /\ ~EndsWith(file, ".json")
      /\ file # newFileName
      /\ BaseFileNames[file] = BaseFileNames[newFileName]
      /\ ExtNames[file] = ExtNames[newFileName] }

\* A test that takes the recorded file for an earlier version only when it
\* has the new file's name.
HasOldVersionSameName(m, category, newFileName) ==
  /\ category \in DOMAIN m.downloads
  /\ m.downloads[category].fileName = newFileName

\* cleanupOldVersions, its test for a recorded earlier version: the
\* metadata names a file for the category and the name differs.
HasOldVersion(m, category, newFileName) ==
  /\ category \in DOMAIN m.downloads
  /\ m.downloads[category].fileName # ""
  /\ m.downloads[category].fileName # newFileName

\* cleanupOldVersions up to its call of cleanupSimilarFiles: when the
\* recorded file is on disk (fs.access succeeds) it is unlinked, the record
\* is deleted from this.metadata and the state is written (outcome wc).
OldVersionDropped(v, m, fs, vf, g, category, newFileName, t, wc) ==
  IF HasOldVersion(m, category, newFileName)
     /\ m.downloads[category].fileName \in fs
  THEN [metadata |-> [m EXCEPT !.downloads = Drop(@, category)],
        files |-> fs \ {m.downloads[category].fileName},
        vendorFile |->
          VendorFileAfter(vf, [m EXCEPT !.downloads = Drop(@, category)], wc),
        globalFile |->
          GlobalFileAfter(g, v, [m EXCEPT !.downloads = Drop(@, category)],
                          t, wc)]
  ELSE [metadata |-> m, files |-> fs, vendorFile |-> vf, globalFile |-> g]

\* The directory without the entries gone.
Unlinked(v, s, gone) ==
  [s EXCEPT !.files = @ \ gone,
            !.vendorFile = IF MetaFileName(v) \in gone THEN MissingFile ELSE @]

\* cleanupSimilarFiles(newFileName) on the state s.
CleanupSimilarFiles(v, s, newFileName) ==
  Unlinked(v, s, SimilarFiles(DirListing(v, s.files, s.vendorFile),
                              newFileName))

\* cleanupOldVersions(category, newFileName) on (metadata, files, vendor
\* file, aggregate file); wc is the outcome of its state-file write.
CleanupOldVersions(v, m, fs, vf, g, category, newFileName, t, wc) ==
  CleanupSimilarFiles(
    v, OldVersionDropped(v, m, fs, vf, g, category, newFileName, t, wc),
    newFileName)

TransferOutcomes == {"ok", "error", "empty"}

\* A check of the written file that does not look at its size.
FileVerifiedAnySize(outcome) == outcome \in {"ok", "empty"}

\* downloadFile's check of the written file: the stream finished and
\* stats.size > 0.
FileVerified(outcome) == outcome = "ok"

\* An updateMetadata that replaces the whole downloads map.
UpdatedMetadataAlone(m, category, data, t) ==
  [lastUpdate |-> t, downloads |-> Put(EmptyMap, category, data)]

\* updateMetadata(category, data), its assignments to this.metadata.
UpdatedMetadata(m, category, data, t) ==
  [lastUpdate |-> t, downloads |-> Put(m.downloads, category, data)]

\* The record downloadFile hands to updateMetadata.
ArtifactRecord(d, fileName, t) ==
  [version |-> d.version, fileName |-> fileName, downloadedAt |-> t]

\* downloadFile after a verified transfer: updateMetadata with this.metadata
\* already assigned (m2).  A throwing write (wu) lands in downloadFile's
\* catch, which unlinks the file and returns false.
Recorded(v, c, m2, fileName, t, wu) ==
  IF wu # "ok"
  THEN [metadata |-> m2, files |-> c.files \ {fileName},
        vendorFile |-> VendorFileAfter(c.vendorFile, m2, wu),
        globalFile |-> c.globalFile,
        fileName |-> fileName, result |-> FALSE]
  ELSE [metadata |-> m2, files |-> c.files \cup {fileName},
        vendorFile |-> WrittenFile(m2),
        globalFile |-> WithProvider(c.globalFile, v, m2, t),
        fileName |-> fileName, result |-> TRUE]

\* A downloadFile that records the artifact although its transfer failed.
TransferredMarkingFailed(v, c, d, fileName, t, outcome, wu) ==
  IF ~FileVerified(outcome)
  THEN [metadata |-> UpdatedMetadata(c.metadata, d.category,
                                     ArtifactRecord(d, fileName, t), t),
        files |-> c.files \ {fileName},
        vendorFile |-> c.vendorFile, globalFile |-> c.globalFile,
        fileName |-> fileName, result |-> FALSE]
  ELSE Recorded(v, c,
                UpdatedMetadata(c.metadata, d.category,
                                ArtifactRecord(d, fileName, t), t),
                fileName, t, wu)

\* downloadFile after cleanupOldVersions left the state c: the transfer, the
\* check of the written file and updateMetadata; the catch block unlinks the
\* file and returns false.
Transferred(v, c, d, fileName, t, outcome, wu) ==
  IF ~FileVerified(outcome)
  THEN [metadata |-> c.metadata, files |-> c.files \ {fileName},
        vendorFile |-> c.vendorFile, globalFile |-> c.globalFile,
        fileName |-> fileName, result |-> FALSE]
  ELSE Recorded(v, c,
                UpdatedMetadata(c.metadata, d.category,
                                ArtifactRecord(d, fileName, t), t),
                fileName, t, wu)

\* downloadFile(download): the state after the call and its return value.
\* outcome is what the network does ("error": the request or the stream
\* fails; "empty": the stream ends with a file of size 0); wc and wu are the
\* outcomes of cleanup's and updateMetadata's state-file writes.
DownloadFileResult(v, m, fs, vf, g, d, t, outcome, wc, wu) ==
  Transferred(v,
              CleanupOldVersions(v, m, fs, vf, g, d.category,
                                 TargetNames[v][d], t, wc),
              d, TargetNames[v][d], t, outcome, wu)

\* No call of the manager is in flight.
NoTask == [kind |-> "none", pc |-> "idle", left |-> 0, first |-> FALSE]

DashIdle ==
  /\ runningProviders = {}
  /\ tasks = [t \in 1..MaxTasks |-> NoTask]
  /\ exited = FALSE

\* No categorizeDownloads call under observation.
CatIdle ==
  /\ catPc = "idle"
  /\ catAppType = ""
  /\ catFilter = <<>>
  /\ catDownloads = <<>>
  /\ categorized = EmptyMap

\* No signal has arrived; no provider has a browser or a transfer.
SigIdle ==
  /\ shutdown = "none"
  /\ toClean = <<>>
  /\ browsers = [v \in {"bmw", "vw"} |-> "none"]
  /\ transfers = [v \in {"bmw", "vw"} |-> "none"]

\* No load of a state file under observation.
LoadIdle ==
  /\ diskVendor = [kind |-> "missing", value |-> [error |-> "ENOENT"]]
  /\ diskGlobal = [kind |-> "missing", value |-> [error |-> "ENOENT"]]
  /\ held = EmptyMetadata
  /\ loaded = [by |-> "none", metadata |-> EmptyMetadata,
               global |-> EmptyGlobal, threw |-> FALSE]

\* No URL under observation.
UrlIdle ==
  /\ urlGiven = ""
  /\ extracted = [done |-> FALSE, fileName |-> ""]

\* No login verification under observation.
NoPageSeen == [evaluates |-> FALSE, body |-> {}, hasForm |-> FALSE,
               form |-> {}]

VerifyIdle ==
  /\ verifyPc = "idle"
  /\ attempts = 0
  /\ loginSuccess = FALSE
  /\ pageSeen = NoPageSeen
  /\ currentUrl = ""
  /\ loginResult = "none"

\* No pure-function call under observation.
NotCalled == [done |-> FALSE, value |-> ""]

\* No portal under observation.
RepeatIdle == portal = <<>>

CallIdle ==
  /\ callArgs = ""
  /\ callResult = NotCalled

\* ------------------------------------------------------------ the instance
Init ==
  /\ vendor \in Vendors
  /\ pc = "off"
  /\ mode = "none"
  /\ firstCycle = FALSE
  /\ now = 0
  /\ browser = "none"
  /\ sessionLive = FALSE
  /\ isLoggedIn = FALSE
  /\ metadata = EmptyMetadata
  /\ vendorFile = MissingFile
  /\ globalFile = EmptyGlobal
  /\ files = {}
  /\ surface = 1
  /\ updates = <<>>
  /\ succeeded = <<>>
  /\ failed = {}
  /\ lastPolicy = {}
  /\ lastScan = "none"
  /\ lastLogin = NoLogin
  /\ lastDl = NoDl
  /\ lastNotify = NoNotify
  /\ aggPc = [v \in Vendors |-> "idle"]
  /\ aggLocal = [v \in Vendors |-> EmptyGlobal]
  /\ aggSeq = [v \in Vendors |-> 0]
  /\ DashIdle
  /\ CatIdle
  /\ SigIdle
  /\ LoadIdle
  /\ UrlIdle
  /\ VerifyIdle
  /\ CallIdle
  /\ RepeatIdle

\* The logs of the last step are cleared by every step that does not set them.
NoLogs == /\ lastPolicy' = {}
          /\ lastScan' = "none"
          /\ lastLogin' = NoLogin
          /\ lastDl' = NoDl
          /\ lastNotify' = NoNotify

\* A loadMetadata that takes the downloads of the file and not its lastUpdate.
LoadedMetadataDownloadsOnly(vf) ==
  [lastUpdate |-> 0, downloads |-> vf.downloads]

\* loadMetadata: the vendor file parsed, or the empty state when it is
\* missing or unreadable.
LoadedMetadata(vf) ==
  IF vf.exists THEN [lastUpdate |-> vf.lastUpdate, downloads |-> vf.downloads]
  ELSE EmptyMetadata

\* BaseProvider.cleanup: browser.close() if there is a browser object.
Closed(b) == IF b = "none" THEN "none" ELSE "closed"

\* CarDownloaderManager.runProvider -> provider.run(), up to the initial
\* check: initialize() (mkdir, loadMetadata, launchBrowser).  A throw lands
\* in run()'s outer catch: cleanup and process.exit(1).
RunStart ==
  /\ pc = "off"
  /\ now < MaxTime
  /\ now' = now + 1
  /\ metadata' = LoadedMetadata(vendorFile)
  /\ \E launchOk \in BOOLEAN :
       IF launchOk
       THEN /\ browser' = "open"
            /\ pc' = "cfu"
            /\ mode' = "run"
            /\ firstCycle' = TRUE
       ELSE /\ browser' = Closed(browser)
            /\ pc' = "exited"
            /\ UNCHANGED <<mode, firstCycle>>
  /\ sessionLive' = FALSE
  /\ NoLogs
  /\ UNCHANGED <<vendor, failed, isLoggedIn, vendorFile, globalFile, files,
                 surface, updates, succeeded, aggVars, dashVars, catVars,
                 sigVars, loadVars, urlVars, verifyVars, callVars, repeatVars>>

\* CarDownloaderManager.runSingleCheck(providerName) up to checkForUpdates:
\* initialize(); a throw is caught, cleanup() runs and the check is over.
SingleStart ==
  /\ pc = "off"
  /\ now < MaxTime
  /\ now' = now + 1
  /\ metadata' = LoadedMetadata(vendorFile)
  /\ \E launchOk \in BOOLEAN :
       IF launchOk
       THEN /\ browser' = "open"
            /\ pc' = "cfu"
            /\ mode' = "single"
       ELSE /\ browser' = Closed(browser)
            /\ pc' = "off"
            /\ mode' = "none"
  /\ sessionLive' = FALSE
  /\ firstCycle' = FALSE
  /\ NoLogs
  /\ UNCHANGED <<vendor, failed, isLoggedIn, vendorFile, globalFile, files,
                 surface, updates, succeeded, aggVars, dashVars, catVars,
                 sigVars, loadVars, urlVars, verifyVars, callVars, repeatVars>>

\* checkLoginStatus: what the page shows.  Without a live session it never
\* shows the identity banner; with one, the markers may still be missing.
LoginStatusChoices == IF sessionLive THEN BOOLEAN ELSE {FALSE}

\* The steps of login() that can throw: page.goto of the auth page, the wait
\* for the form, the entry of the credentials with the click, and the
\* verification of the page reached.
LoginSteps == {"goto", "form", "credentials", "verify"}

\* What can happen to one authentication attempt: the step that throws
\* ("none": the login is verified) and whether sending a notification mail
\* would throw.  Without an open browser the first step throws.
LoginAttempts ==
  [failAt : IF browser = "open" THEN LoginSteps \cup {"none"} ELSE {"goto"},
   mailFails : BOOLEAN]

\* Notifications the catch block of login() emits for one failure:
\* BMWProvider.login awaits sendLoginFailureNotification(error.message);
\* VWProvider.login logs and returns false.
LoginFailureNotifications(v) == IF v = "bmw" THEN 1 ELSE 0

\* A sendLoginFailureNotification without its try/catch.
NotificationThrowsUnguarded(v, mailFails) ==
  LoginFailureNotifications(v) > 0 /\ mailFails

\* Whether the catch block of login() throws: sendLoginFailureNotification
\* catches what emailService throws and only logs it.
NotificationThrows(v, mailFails) == FALSE

\* A login() without the isLoggedIn guard of its first lines.
LoginCallAlwaysAttempting(v, wasLoggedIn, attempt, lost) ==
  [called |-> TRUE, lost |-> lost, entry |-> wasLoggedIn, noop |-> FALSE,
   failAt |-> attempt.failAt, mailFails |-> attempt.mailFails,
   result |-> (attempt.failAt = "none"),
   notified |-> IF attempt.failAt = "none" THEN 0
                ELSE LoginFailureNotifications(v),
   threw |-> (attempt.failAt # "none"
              /\ NotificationThrows(v, attempt.mailFails))]

\* login() as a log entry: wasLoggedIn is this.isLoggedIn on entry, attempt
\* what happens to the authentication, lost whether the call follows a
\* liveness check that reported the session lost while isLoggedIn was true.
\* noop: the call returned true at its first lines; threw: an exception left
\* the call.
LoginCall(v, wasLoggedIn, attempt, lost) ==
  IF wasLoggedIn
  THEN [called |-> TRUE, lost |-> lost, entry |-> TRUE, noop |-> TRUE,
        failAt |-> "", mailFails |-> FALSE,
        result |-> TRUE, notified |-> 0, threw |-> FALSE]
  ELSE [called |-> TRUE, lost |-> lost, entry |-> FALSE, noop |-> FALSE,
        failAt |-> attempt.failAt, mailFails |-> attempt.mailFails,
        result |-> (attempt.failAt = "none"),
        notified |-> IF attempt.failAt = "none" THEN 0
                     ELSE LoginFailureNotifications(v),
        threw |-> (attempt.failAt # "none"
                   /\ NotificationThrows(v, attempt.mailFails))]

\* A checkForUpdates that goes on after a failed login.
AfterLoginIgnoringFailure(r) == IF r.threw THEN "cfuThrew" ELSE "nav"

\* checkForUpdates after its login() call r: an exception leaves
\* checkForUpdates, a false result makes it return at once.
AfterLogin(r) ==
  IF r.threw THEN "cfuThrew" ELSE IF r.result THEN "nav" ELSE "cfuDone"

\* BMWProvider.checkForUpdates, its first lines: login() unless isLoggedIn.
EnsureLoginBMW ==
  /\ pc = "cfu"
  /\ vendor = "bmw"
  /\ IF isLoggedIn
     THEN /\ lastLogin' = NoLogin
          /\ pc' = "nav"
          /\ UNCHANGED <<isLoggedIn, sessionLive>>
     ELSE \E attempt \in LoginAttempts :
          \E r \in {LoginCall(vendor, FALSE, attempt, FALSE)} :
            /\ lastLogin' = r
            /\ isLoggedIn' = r.result
            /\ sessionLive' = r.result
            /\ pc' = AfterLogin(r)
  /\ surface' = 1
  /\ lastPolicy' = {}
  /\ lastScan' = "none"
  /\ lastDl' = NoDl
  /\ lastNotify' = NoNotify
  /\ UNCHANGED <<vendor, failed, mode, firstCycle, now, browser, metadata,
                 vendorFile, globalFile, files, updates, succeeded, aggVars,
                 dashVars, catVars, sigVars, loadVars, urlVars, verifyVars,
                 callVars, repeatVars>>

\* VWProvider.checkForUpdates, its first lines: checkLoginStatus(), then
\* login() if the check failed or isLoggedIn is false.  isLoggedIn keeps its
\* value across the failed check, so login() sees it on entry.
EnsureLoginVW ==
  /\ pc = "cfu"
  /\ vendor = "vw"
  /\ \E status \in LoginStatusChoices :
       IF status /\ isLoggedIn
       THEN /\ lastLogin' = NoLogin
            /\ pc' = "nav"
            /\ UNCHANGED <<isLoggedIn, sessionLive>>
       ELSE \E attempt \in LoginAttempts :
            \E r \in {LoginCall(vendor, isLoggedIn, attempt, isLoggedIn)} :
              /\ lastLogin' = r
              /\ isLoggedIn' = IF r.noop THEN isLoggedIn ELSE r.result
              /\ sessionLive' = IF r.noop THEN sessionLive ELSE r.result
              /\ pc' = AfterLogin(r)
  /\ surface' = 1
  /\ lastPolicy' = {}
  /\ lastScan' = "none"
  /\ lastDl' = NoDl
  /\ lastNotify' = NoNotify
  /\ UNCHANGED <<vendor, failed, mode, firstCycle, now, browser, metadata,
                 vendorFile, globalFile, files, updates, succeeded, aggVars,
                 dashVars, catVars, sigVars, loadVars, urlVars, verifyVars,
                 callVars, repeatVars>>

\* The surface being checked.
App == Surfaces(vendor)[surface]

\* After a surface: the next one, or the heartbeat after the last.
AfterSurface ==
  IF surface < Len(Surfaces(vendor))
  THEN /\ surface' = surface + 1
       /\ pc' = "nav"
  ELSE /\ surface' = surface
       /\ pc' = "heartbeat"

\* BMWProvider.navigateToApplication(appType) as called by
\* checkApplicationUpdates: a failed navigation skips the surface with
\* counts 0/0.
NavigateBMW ==
  /\ pc = "nav"
  /\ vendor = "bmw"
  /\ \E ok \in BOOLEAN :
       IF ok THEN /\ pc' = "find"
                  /\ surface' = surface
             ELSE AfterSurface
  /\ NoLogs
  /\ UNCHANGED <<vendor, failed, mode, firstCycle, now, browser, sessionLive,
                 isLoggedIn, metadata, vendorFile, globalFile, files,
                 updates, succeeded, aggVars, dashVars, catVars, sigVars,
                 loadVars, urlVars, verifyVars, callVars, repeatVars>>

\* VWProvider.navigateToDownloads as called by checkForUpdates: goto, then
\* checkLoginStatus(); on a lost session isLoggedIn is cleared and login()
\* is called again; a failed re-login or navigation (or an exception, caught
\* by navigateToDownloads) ends the cycle.
NavigateVW ==
  /\ pc = "nav"
  /\ vendor = "vw"
  /\ \E gotoOk \in BOOLEAN :
       IF ~gotoOk
       THEN /\ pc' = "cfuDone"
            /\ lastLogin' = NoLogin
            /\ UNCHANGED <<isLoggedIn, sessionLive>>
       ELSE \E status \in LoginStatusChoices :
              IF status
              THEN /\ pc' = "find"
                   /\ lastLogin' = NoLogin
                   /\ UNCHANGED <<isLoggedIn, sessionLive>>
              ELSE \E attempt \in LoginAttempts :
                   \E r \in {LoginCall(vendor, FALSE, attempt, isLoggedIn)} :
                     /\ lastLogin' = r
                     /\ isLoggedIn' = r.result
                     /\ sessionLive' = r.result
                     /\ pc' = IF r.result /\ ~r.threw THEN "find"
                              ELSE "cfuDone"
  /\ lastPolicy' = {}
  /\ lastScan' = "none"
  /\ lastDl' = NoDl
  /\ lastNotify' = NoNotify
  /\ UNCHANGED <<vendor, failed, mode, firstCycle, now, browser, metadata,
                 vendorFile, globalFile, files, surface, updates, succeeded,
                 aggVars, dashVars, catVars, sigVars, loadVars, urlVars,
                 verifyVars, callVars, repeatVars>>

\* What findDownloads can return for a surface: for each of its categories
\* at most one catalog artifact ({} when the scan fails or finds nothing).
FoundMaps(v, app) ==
  UNION { [S -> {a \in Catalog(v) : a.appType = app}] :
            S \in SUBSET SurfaceCategories(app) }

WellCategorized(found) == \A c \in DOMAIN found : found[c].category = c

\* The orders in which Object.entries can list the categories of a found
\* map: the order in which the page lists them.
Orders(S) ==
  { q \in UNION { [1..n -> S] : n \in {Cardinality(S)} } :
      \A i, j \in DOMAIN q : i # j => q[i] # q[j] }

RECURSIVE Accepted(_, _, _)
Accepted(m, found, order) ==
  IF order = <<>> THEN <<>>
  ELSE LET d == found[Head(order)]
           rest == Accepted(m, found, Tail(order))
       IN IF isNewVersion(m, d.category, d.version) THEN <<d>> \o rest
          ELSE rest

\* A findDownloads whose scan throws past its try/catch.
AfterScanUnguarded(scanOk, accepted) ==
  IF ~scanOk THEN "cfuThrew"
  ELSE IF accepted # <<>> THEN "download" ELSE "surfaceDone"

\* Where the surface goes after findDownloads and the filter loop: a throw
\* of the scan is caught inside findDownloads, which then returns {}; the
\* download loop runs when updates.length > 0.
AfterScan(scanOk, accepted) ==
  IF accepted # <<>> THEN "download" ELSE "surfaceDone"

\* findDownloads and the filter loop that follows it in
\* checkApplicationUpdates (BMW) and checkForUpdates (VW).  scanOk: the
\* waits and the page.evaluate of the scan did not throw.
Discover ==
  /\ pc = "find"
  /\ \E scanOk \in BOOLEAN :
     \E found \in (IF scanOk THEN FoundMaps(vendor, App) ELSE {EmptyMap}) :
       /\ WellCategorized(found)
       /\ lastScan' = IF scanOk THEN "ok" ELSE "failed"
       /\ \E order \in Orders(DOMAIN found) :
            /\ updates' = Accepted(metadata, found, order)
            /\ pc' = AfterScan(scanOk, Accepted(metadata, found, order))
            /\ lastPolicy' =
                 { [category |-> c,
                    prev |-> IF c \in DOMAIN metadata.downloads
                             THEN metadata.downloads[c].version ELSE "",
                    next |-> found[c].version,
                    retry |-> found[c] \in failed,
                    accepted |-> isNewVersion(metadata, c, found[c].version)] :
                   c \in DOMAIN found }
  /\ succeeded' = <<>>
  /\ lastLogin' = NoLogin
  /\ lastDl' = NoDl
  /\ lastNotify' = NoNotify
  /\ UNCHANGED <<vendor, failed, mode, firstCycle, now, browser, sessionLive,
                 isLoggedIn, metadata, vendorFile, globalFile, files, surface,
                 aggVars, dashVars, catVars, sigVars, loadVars, urlVars,
                 verifyVars, callVars, repeatVars>>

\* The fileName of the record this.metadata holds for a category, "" if none.
RecordedFileName(m, category) ==
  IF category \in DOMAIN m.downloads THEN m.downloads[category].fileName
  ELSE ""

\* One iteration of the download loop: downloadFile(updates[i]).
DownloadNext ==
  /\ pc = "download"
  /\ updates # <<>>
  /\ \E outcome \in TransferOutcomes, wc \in WriteOutcomes :
     \E wu \in (IF outcome = "ok" THEN WriteOutcomes ELSE {"ok"}) :
       \E d \in {Head(updates)} :
       \E r \in {DownloadFileResult(vendor, metadata, files, vendorFile,
                                    globalFile, d, now, outcome, wc, wu)} :
          /\ metadata' = r.metadata
          /\ files' = r.files
          /\ vendorFile' = r.vendorFile
          /\ globalFile' = r.globalFile
          /\ failed' = {x \in failed : x.category # d.category}
                          \cup (IF FileVerified(outcome) THEN {} ELSE {d})
          /\ succeeded' = IF r.result THEN Append(succeeded, d) ELSE succeeded
          /\ lastDl' = [called |-> TRUE, category |-> d.category,
                        fileName |-> r.fileName, version |-> d.version,
                        outcome |-> outcome, result |-> r.result,
                        prevFileName |-> RecordedFileName(metadata, d.category),
                        prevOnDisk |->
                          RecordedFileName(metadata, d.category) \in files]
  /\ updates' = Tail(updates)
  /\ pc' = IF Tail(updates) # <<>> THEN "download" ELSE "surfaceDone"
  /\ lastPolicy' = {}
  /\ lastScan' = "none"
  /\ lastLogin' = NoLogin
  /\ lastNotify' = NoNotify
  /\ UNCHANGED <<vendor, mode, firstCycle, now, browser, sessionLive,
                 isLoggedIn, surface, aggVars, dashVars, catVars, sigVars,
                 loadVars, urlVars, verifyVars, callVars, repeatVars>>

\* What emailService.sendNewVersionNotification can do with a mail: send
\* it, return false because the service is disabled or has no transporter,
\* return false after sendMail rejected, or throw.
MailOutcomes == {"delivered", "disabled", "smtpError", "threw"}

\* A sendNewVersionNotification without its try/catch.
NewVersionNotificationThrowsUnguarded(delivery) == delivery = "threw"

\* Whether BaseProvider.sendNewVersionNotification throws: its try/catch
\* logs what the email service throws, and a false result is only logged.
NewVersionNotificationThrows(delivery) == FALSE

\* The end of a surface: BMW's checkApplicationUpdates sends the new-version
\* notification when successfulUpdates is not empty and returns its counts;
\* VW's checkForUpdates sends none.
SurfaceDone ==
  /\ pc = "surfaceDone"
  /\ IF vendor = "bmw" /\ succeeded # <<>>
     THEN \E delivery \in MailOutcomes :
            /\ lastNotify' = [sent |-> TRUE, updates |-> succeeded,
                              delivery |-> delivery]
            /\ IF NewVersionNotificationThrows(delivery)
               THEN /\ pc' = "cfuThrew"
                    /\ surface' = surface
               ELSE AfterSurface
     ELSE /\ lastNotify' = NoNotify
          /\ AfterSurface
  /\ succeeded' = <<>>
  /\ lastPolicy' = {}
  /\ lastScan' = "none"
  /\ lastLogin' = NoLogin
  /\ lastDl' = NoDl
  /\ UNCHANGED <<vendor, failed, mode, firstCycle, now, browser, sessionLive,
                 isLoggedIn, metadata, vendorFile, globalFile, files,
                 updates, aggVars, dashVars, catVars, sigVars, loadVars,
                 urlVars, verifyVars, callVars, repeatVars>>

\* updateLastCheck: the heartbeat at the end of checkForUpdates.  A failed
\* write throws out of checkForUpdates.
UpdateLastCheck ==
  /\ pc = "heartbeat"
  /\ \E w \in WriteOutcomes :
       LET m == [metadata EXCEPT !.lastUpdate = now]
       IN /\ metadata' = m
          /\ vendorFile' = VendorFileAfter(vendorFile, m, w)
          /\ globalFile' = GlobalFileAfter(globalFile, vendor, m, now, w)
          /\ pc' = IF w = "ok" THEN "cfuDone" ELSE "cfuThrew"
  /\ NoLogs
  /\ UNCHANGED <<vendor, failed, mode, firstCycle, now, browser, sessionLive,
                 isLoggedIn, files, surface, updates, succeeded, aggVars,
                 dashVars, catVars, sigVars, loadVars, urlVars, verifyVars,
                 callVars, repeatVars>>

\* checkForUpdates is over: it returned ("cfuDone") or threw ("cfuThrew")
\* into its caller.  run(): the initial check stands outside the loop's
\* try, so a throw reaches the outer catch (cleanup, process.exit(1)); a
\* later check's throw is caught in the loop (cleanup, next interval).
\* runSingleCheck(): cleanup() on both paths.
CycleEnd ==
  /\ pc \in {"cfuDone", "cfuThrew"}
  /\ IF mode = "single"
     THEN /\ pc' = "off"
          /\ mode' = "none"
          /\ browser' = Closed(browser)
          /\ sessionLive' = FALSE
     ELSE IF pc = "cfuDone"
     THEN /\ pc' = "sleep"
          /\ UNCHANGED <<mode, browser, sessionLive>>
     ELSE /\ pc' = IF firstCycle THEN "exited" ELSE "sleep"
          /\ browser' = Closed(browser)
          /\ sessionLive' = FALSE
          /\ mode' = mode
  /\ NoLogs
  /\ UNCHANGED <<vendor, failed, firstCycle, now, isLoggedIn, metadata,
                 vendorFile, globalFile, files, surface, updates, succeeded,
                 aggVars, dashVars, catVars, sigVars, loadVars, urlVars,
                 verifyVars, callVars, repeatVars>>

\* A loop pass that relaunches the browser and keeps isLoggedIn.
SleepAndRecycleKeepingLogin ==
  /\ pc = "sleep"
  /\ now < MaxTime
  /\ now' = now + 1
  /\ firstCycle' = FALSE
  /\ sessionLive' = FALSE
  /\ \E launchOk \in BOOLEAN :
       IF launchOk
       THEN /\ browser' = "open"
            /\ isLoggedIn' = isLoggedIn
            /\ pc' = "cfu"
       ELSE /\ browser' = Closed(browser)
            /\ isLoggedIn' = isLoggedIn
            /\ pc' = "sleep"
  /\ NoLogs
  /\ UNCHANGED <<vendor, failed, mode, metadata, vendorFile, globalFile,
                 files, surface, updates, succeeded, aggVars, dashVars,
                 catVars, sigVars, loadVars, urlVars, verifyVars, callVars,
                 repeatVars>>

\* One pass of run()'s while loop up to checkForUpdates: the interval's
\* sleep, then cleanup(), launchBrowser() and isLoggedIn = false.  A throw of
\* launchBrowser is caught by the loop: cleanup, next interval.
SleepAndRecycle ==
  /\ pc = "sleep"
  /\ now < MaxTime
  /\ now' = now + 1
  /\ firstCycle' = FALSE
  /\ sessionLive' = FALSE
  /\ \E launchOk \in BOOLEAN :
       IF launchOk
       THEN /\ browser' = "open"
            /\ isLoggedIn' = FALSE
            /\ pc' = "cfu"
       ELSE /\ browser' = Closed(browser)
            /\ isLoggedIn' = isLoggedIn
            /\ pc' = "sleep"
  /\ NoLogs
  /\ UNCHANGED <<vendor, failed, mode, metadata, vendorFile, globalFile,
                 files, surface, updates, succeeded, aggVars, dashVars,
                 catVars, sigVars, loadVars, urlVars, verifyVars, callVars,
                 repeatVars>>

\* MetadataManager.cleanupOldMetadata(daysToKeep): the categories of a
\* provider entry whose downloadedAt is not before the cutoff.
KeptDownloads(downloads, cutoff) ==
  [c \in {k \in DOMAIN downloads : ~(downloads[k].downloadedAt < cutoff)} |->
     downloads[c]]

\* The aggregate object after its loop over the providers.
PrunedGlobal(g, cutoff) ==
  [g EXCEPT !.providers =
     [v \in DOMAIN g.providers |->
        [g.providers[v] EXCEPT !.downloads = KeptDownloads(@, cutoff)]]]

\* StatusReporter.cleanupOldData(daysToKeep), run from the command line
\* between two checks at a time t not before the last cycle's start: the
\* aggregate file is saved only when an entry was removed.
CleanupOldData ==
  /\ pc \in {"off", "sleep"}
  /\ \E t \in now..(MaxTime + 1), daysToKeep \in 1..MaxTime :
       /\ now' = t
       /\ globalFile' = PrunedGlobal(globalFile, t - daysToKeep)
  /\ NoLogs
  /\ UNCHANGED <<vendor, failed, pc, mode, firstCycle, browser, sessionLive,
                 isLoggedIn, metadata, vendorFile, files, surface, updates,
                 succeeded, aggVars, dashVars, catVars, sigVars, loadVars,
                 urlVars, verifyVars, callVars, repeatVars>>

\* Environment: the vendor's state file is lost (or left unparseable) while
\* no check is running; the next loadMetadata starts from the empty state.
StateFileLost ==
  /\ pc = "off"
  /\ vendorFile.exists
  /\ vendorFile' = MissingFile
  /\ NoLogs
  /\ UNCHANGED <<vendor, failed, pc, mode, firstCycle, now, browser,
                 sessionLive, isLoggedIn, metadata, globalFile, files,
                 surface, updates, succeeded, aggVars, dashVars, catVars,
                 sigVars, loadVars, urlVars, verifyVars, callVars, repeatVars>>

Next ==
  \/ RunStart
  \/ SingleStart
  \/ EnsureLoginBMW
  \/ EnsureLoginVW
  \/ NavigateBMW
  \/ NavigateVW
  \/ Discover
  \/ DownloadNext
  \/ SurfaceDone
  \/ UpdateLastCheck
  \/ CycleEnd
  \/ SleepAndRecycle
  \/ StateFileLost
  \/ CleanupOldData

Spec == Init /\ [][Next]_vars

\* ------------------------------------------- the aggregate file, two loops
\* runAllProviders starts every provider's run() at once: their calls of
\* updateProviderMetadata share one global_metadata.json.  Each call awaits
\* the file's read, changes the object it got, and awaits the write.
InitAgg ==
  /\ vendor = "bmw"
  /\ pc = "off"
  /\ mode = "none"
  /\ firstCycle = FALSE
  /\ now = 0
  /\ browser = "none"
  /\ sessionLive = FALSE
  /\ isLoggedIn = FALSE
  /\ metadata = EmptyMetadata
  /\ vendorFile = MissingFile
  /\ globalFile = EmptyGlobal
  /\ files = {}
  /\ surface = 1
  /\ updates = <<>>
  /\ succeeded = <<>>
  /\ failed = {}
  /\ lastPolicy = {}
  /\ lastScan = "none"
  /\ lastLogin = NoLogin
  /\ lastDl = NoDl
  /\ lastNotify = NoNotify
  /\ aggPc = [v \in Vendors |-> "idle"]
  /\ aggLocal = [v \in Vendors |-> EmptyGlobal]
  /\ aggSeq = [v \in Vendors |-> 0]
  /\ DashIdle
  /\ CatIdle
  /\ SigIdle
  /\ LoadIdle
  /\ UrlIdle
  /\ VerifyIdle
  /\ CallIdle
  /\ RepeatIdle

\* updateProviderMetadata(v, providerData) up to the await of the save:
\* loadGlobalMetadata() and the assignment of providers[v].  The entry's
\* lastUpdate is the number of the update, which tells the entries apart.
AggLoad(v) ==
  /\ aggPc[v] = "idle"
  /\ aggSeq[v] < MaxUpdates
  /\ aggSeq' = [aggSeq EXCEPT ![v] = @ + 1]
  /\ aggLocal' = [aggLocal EXCEPT
                    ![v] = WithProvider(globalFile, v, EmptyMetadata,
                                        aggSeq[v] + 1)]
  /\ aggPc' = [aggPc EXCEPT ![v] = "loaded"]
  /\ UNCHANGED <<mainVars, dashVars, catVars, sigVars, loadVars, urlVars,
                 verifyVars, callVars, repeatVars>>

\* saveGlobalMetadata(globalMetadata): the whole object replaces the file.
AggSave(v) ==
  /\ aggPc[v] = "loaded"
  /\ globalFile' = aggLocal[v]
  /\ aggPc' = [aggPc EXCEPT ![v] = "idle"]
  /\ UNCHANGED <<vendor, failed, pc, mode, firstCycle, now, browser,
                 sessionLive, isLoggedIn, metadata, vendorFile, files,
                 surface, updates, succeeded, lastPolicy, lastScan,
                 lastLogin, lastDl, lastNotify, aggLocal, aggSeq, dashVars,
                 catVars, sigVars, loadVars, urlVars, verifyVars, callVars,
                 repeatVars>>

NextAgg == \E v \in Vendors : AggLoad(v) \/ AggSave(v)

SpecAgg == InitAgg /\ [][NextAgg]_vars

\* --------------------------------- one provider instance, several callers
\* The dashboard's routes call triggerProviderStart and triggerProviderCheck
\* while earlier calls are still awaiting: every call below is one async
\* call on the vendor's single provider instance, and the calls interleave
\* at their awaits.  A task is "in a cycle" from the start of its
\* checkForUpdates to its end, and "downloading" while its download loop has
\* artifacts left.
Tasks == 1..MaxTasks

InCycle(t) == tasks[t].pc \in {"cycle", "download"}

Downloading(t) == tasks[t].pc = "download" /\ tasks[t].left > 0

\* A runProvider without its look at runningProviders.
AlreadyRunningUnchecked(running, v) == FALSE

\* runProvider's guard: this.runningProviders.has(providerName).
AlreadyRunning(running, v) == v \in running

\* The slot of a runProvider call that returned false at its guard.
Refused == [kind |-> "refused", pc |-> "idle", left |-> 0, first |-> FALSE]

\* The slot of a runProvider call whose provider.run() threw: the catch
\* returned false after the finally took the provider out of
\* runningProviders.
Ended == [kind |-> "ended", pc |-> "idle", left |-> 0, first |-> FALSE]

\* run()'s outer catch: cleanup(), then process.exit(1).  browser.close()
\* inside cleanup() can reject; then run() throws into runProvider, whose
\* finally deletes the provider from runningProviders and whose catch
\* returns false.
RunFailed(t) ==
  \E closeOk \in BOOLEAN :
    IF closeOk
    THEN /\ exited' = TRUE
         /\ UNCHANGED <<tasks, runningProviders>>
    ELSE /\ tasks' = [tasks EXCEPT ![t] = Ended]
         /\ runningProviders' = runningProviders \ {vendor}
         /\ exited' = exited

\* triggerProviderStart(providerName) -> runProvider: refused when the
\* provider is in runningProviders, else the provider is added and
\* provider.run() begins.
TriggerProviderStart(t) ==
  /\ ~exited
  /\ tasks[t].pc = "idle"
  /\ IF AlreadyRunning(runningProviders, vendor)
     THEN /\ tasks' = [tasks EXCEPT ![t] = Refused]
          /\ UNCHANGED runningProviders
     ELSE /\ runningProviders' = runningProviders \cup {vendor}
          /\ tasks' = [tasks EXCEPT ![t] = [kind |-> "run", pc |-> "init",
                                            left |-> 0, first |-> TRUE]]
  /\ UNCHANGED <<mainVars, aggVars, catVars, sigVars, loadVars, urlVars,
                 verifyVars, callVars, repeatVars, exited>>

\* triggerProviderCheck(providerName) -> runSingleCheck: no look at
\* runningProviders; provider.initialize() begins.
TriggerProviderCheck(t) ==
  /\ ~exited
  /\ tasks[t].pc = "idle"
  /\ tasks' = [tasks EXCEPT ![t] = [kind |-> "check", pc |-> "init",
                                    left |-> 0, first |-> FALSE]]
  /\ UNCHANGED <<mainVars, aggVars, catVars, sigVars, loadVars, urlVars,
                 verifyVars, callVars, repeatVars, runningProviders, exited>>

\* provider.initialize() of a call, then the start of its checkForUpdates.
\* A throw ends run() in its outer catch (process.exit(1)) and a single
\* check in its catch (cleanup).
TaskInitialize(t) ==
  /\ ~exited
  /\ tasks[t].pc = "init"
  /\ \E launchOk \in BOOLEAN :
       IF launchOk
       THEN /\ tasks' = [tasks EXCEPT ![t].pc = "cycle"]
            /\ UNCHANGED <<exited, runningProviders>>
       ELSE IF tasks[t].kind = "run"
       THEN RunFailed(t)
       ELSE /\ tasks' = [tasks EXCEPT ![t] = NoTask]
            /\ UNCHANGED <<exited, runningProviders>>
  /\ UNCHANGED <<mainVars, aggVars, catVars, sigVars, loadVars, urlVars,
                 verifyVars, callVars, repeatVars>>

\* checkForUpdates up to its download loop: login, navigation, discovery
\* and the filter loop leave n accepted artifacts (none when a step fails).
TaskDiscover(t) ==
  /\ ~exited
  /\ tasks[t].pc = "cycle"
  /\ \E n \in 0..MaxAccepted :
       tasks' = [tasks EXCEPT ![t].pc = "download", ![t].left = n]
  /\ UNCHANGED <<mainVars, aggVars, catVars, sigVars, loadVars, urlVars,
                 verifyVars, callVars, repeatVars, runningProviders, exited>>

\* One downloadFile call of the download loop.
TaskDownload(t) ==
  /\ ~exited
  /\ Downloading(t)
  /\ tasks' = [tasks EXCEPT ![t].left = @ - 1]
  /\ UNCHANGED <<mainVars, aggVars, catVars, sigVars, loadVars, urlVars,
                 verifyVars, callVars, repeatVars, runningProviders, exited>>

\* The end of checkForUpdates (updateLastCheck may throw).  run(): a throw
\* of the initial check reaches process.exit(1), otherwise the interval's
\* sleep follows; runSingleCheck: cleanup() and the call returns.
TaskCycleEnd(t) ==
  /\ ~exited
  /\ tasks[t].pc = "download"
  /\ tasks[t].left = 0
  /\ \E threw \in BOOLEAN :
       IF tasks[t].kind = "check"
       THEN /\ tasks' = [tasks EXCEPT ![t] = NoTask]
            /\ UNCHANGED <<exited, runningProviders>>
       ELSE IF threw /\ tasks[t].first
       THEN RunFailed(t)
       ELSE /\ tasks' = [tasks EXCEPT ![t].pc = "sleep"]
            /\ UNCHANGED <<exited, runningProviders>>
  /\ UNCHANGED <<mainVars, aggVars, catVars, sigVars, loadVars, urlVars,
                 verifyVars, callVars, repeatVars>>

\* run()'s loop after the sleep: cleanup, launchBrowser, checkForUpdates; a
\* throw of launchBrowser is caught and the loop sleeps again.
TaskSleepAndRecycle(t) ==
  /\ ~exited
  /\ tasks[t].pc = "sleep"
  /\ \E launchOk \in BOOLEAN :
       tasks' = [tasks EXCEPT ![t].pc = IF launchOk THEN "cycle" ELSE "sleep",
                              ![t].first = FALSE]
  /\ UNCHANGED <<mainVars, aggVars, catVars, sigVars, loadVars, urlVars,
                 verifyVars, callVars, repeatVars, runningProviders, exited>>

NextDash ==
  \E t \in Tasks :
    \/ TriggerProviderStart(t)
    \/ TriggerProviderCheck(t)
    \/ TaskInitialize(t)
    \/ TaskDiscover(t)
    \/ TaskDownload(t)
    \/ TaskCycleEnd(t)
    \/ TaskSleepAndRecycle(t)

SpecDash == Init /\ [][NextDash]_vars

\* ------------------------------------------------------ categorizeDownloads
\* this.downloadCategories of BMWProvider: the categories of each surface.
validCategories(appType) ==
  CASE appType = "ista-p" -> {"installer", "data_archive"}
    [] appType = "ista-next" ->
         {"client", "programming_data", "icom_firmware", "ptd_driver"}
    [] OTHER -> {}

\* A candidate link as findDownloads collects it.
Link(title, url) == [title |-> title, url |-> url]

\* Links findDownloads can collect on a surface's page (BMW keeps the links
\* whose href holds /api/v2/downloads and no .pdf).  Each surface has two
\* links of one category with different URLs, a link no rule classifies,
\* and links the allow-lists below let through or hold back.
CandidateLinks(appType) ==
  CASE appType = "ista-p" ->
         { Link("Installationsprogramm ISTA/P",
                "https://h/api/v2/downloads/Setup_2.exe"),
           Link("Installationsprogramm ISTA/P alt",
                "https://h/api/v2/downloads/Setup_1.exe"),
           Link("Datenarchiv ISTA/P",
                "https://h/api/v2/downloads/Data.istapdata"),
           Link("BDR-Client", "https://h/api/v2/downloads/BDRClient.exe"),
           Link("Handbuch ISTA/P", "https://h/api/v2/downloads/Manual.zip") }
    [] appType = "ista-next" ->
         { Link("ISTA Programmierdaten",
                "https://h/api/v2/downloads/ISTAOSS_ProgrammingData_2.exe"),
           Link("ISTA Daten",
                "https://h/api/v2/downloads/ISTAOSS_ProgrammingData_1.exe"),
           Link("Installationsdatei ISTA Client",
                "https://h/api/v2/downloads/Client.msi"),
           Link("ICOM Next Firmware",
                "https://h/api/v2/downloads/ICOM-Next-FW.zip"),
           Link("ISTA Hinweise", "https://h/api/v2/downloads/Notes.zip") }
    [] OTHER ->
         { Link("ODIS-Service Installation", "https://v/DownloadODIS?id=3"),
           Link("ODIS-Service Install alt", "https://v/DownloadODIS?id=4"),
           Link("ODIS-Service Update", "https://v/DownloadODIS?id=1"),
           Link("FMC-Installer", "https://v/DownloadFMC?id=5"),
           Link("ODIS-Engineering", "https://v/DownloadODIS?id=6") }

\* Allow-lists the environment can configure (BMW_ISTA_P_FILTER,
\* BMW_ISTA_NEXT_FILTER, VW_DOWNLOAD_FILTER): unset, one entry, several.
FilterLists(appType) ==
  CASE appType = "ista-p" ->
         { <<>>, <<"ISTA/P">>, <<"installationsprogramm", "BDR">> }
    [] appType = "ista-next" ->
         { <<>>, <<"ISTA">>, <<"Programmierdaten", "icom">> }
    [] OTHER ->
         { <<>>, <<"ODIS">>, <<"odis-service install", "FMC">> }

\* An allow-list that lets every link through.
matchesFilterAlways(filter, rawTitle, title) == TRUE

\* filter.some(filterText => title.includes(filterText.toLowerCase())
\*                           || download.title.includes(filterText))
matchesFilter(filter, rawTitle, title) ==
  \E k \in 1..Len(filter) :
    Includes(title, toLowerCase(filter[k])) \/ Includes(rawTitle, filter[k])

\* The rule chain of BMWProvider.categorizeDownloads for ISTA-P on the
\* lower-cased title and url; "" is null.
CategoryIstaP(title, url) ==
  IF \/ Includes(title, "installationsprogramm")
     \/ Includes(title, "installationsdatei")
     \/ Includes(url, "istaoss")
     \/ Includes(url, "bdrclient")
  THEN "installer"
  ELSE IF \/ Includes(title, "datenarchiv")
          \/ Includes(url, "commondat")
          \/ Includes(url, ".istapdata")
          \/ (Includes(url, "ista-p") /\ Includes(url, "commondat"))
  THEN "data_archive"
  ELSE ""

\* An ISTA-Next rule chain that tries the client rule first.
CategoryIstaNextClientFirst(title, url) ==
  IF \/ Includes(title, "installationsdatei")
     \/ Includes(title, "client")
     \/ Includes(url, "istaoss")
     \/ Includes(url, "client")
  THEN "client"
  ELSE IF \/ Includes(title, "programmierdaten")
          \/ Includes(url, "ISTAOSS_ProgrammingData_")
  THEN "programming_data"
  ELSE ""

\* The rule chain for ISTA-Next, on the lower-cased title and url; the
\* mixed-case literals are the source's.
CategoryIstaNext(title, url) ==
  IF \/ Includes(title, "programmierdaten")
     \/ Includes(url, "ISTAOSS_ProgrammingData_")
  THEN "programming_data"
  ELSE IF \/ Includes(title, "installationsdatei")
          \/ Includes(title, "client")
          \/ Includes(url, "istaoss")
          \/ Includes(url, "client")
  THEN "client"
  ELSE IF \/ (Includes(title, "icom") /\ Includes(title, "firmware"))
          \/ Includes(url, "ICOM-Next-FW")
          \/ (Includes(url, "icom") /\ Includes(url, "fw"))
  THEN "icom_firmware"
  ELSE IF \/ Includes(title, "ptd")
          \/ Includes(title, "treiber")
          \/ Includes(url, "ptd")
          \/ Includes(url, "passthru")
  THEN "ptd_driver"
  ELSE ""

\* The rule chain of VWProvider.categorizeDownloads on the lower-cased
\* title: the category and the appType it assigns, "" for null.
CategoryOdis(title) ==
  IF /\ (Includes(title, "odis-service") \/ Includes(title, "odis_service"))
     /\ (Includes(title, "installation") \/ Includes(title, "install"))
  THEN [appType |-> "odis_service", category |-> "installation"]
  ELSE IF /\ (Includes(title, "odis-service")
              \/ Includes(title, "odis_service"))
          /\ (Includes(title, "update") \/ Includes(title, "update"))
  THEN [appType |-> "odis_service", category |-> "update"]
  ELSE IF /\ \/ Includes(title, "fmc")
             \/ Includes(title, "flashmediacreator")
             \/ Includes(title, "flashmedia")
             \/ Includes(title, "FMC-Installer")
          /\ \/ Includes(title, "installer")
             \/ Includes(title, "install")
             \/ Includes(title, "download")
             \/ Includes(title, "FMC-Installer")
  THEN [appType |-> "fmc", category |-> "installer"]
  ELSE [appType |-> "", category |-> ""]

\* One pass of BMW's loop body up to its last if: the category the link
\* takes a slot of, "" when the link is skipped (not on the allow-list, no
\* rule matched, or a category the surface does not have).
SlotBMW(appType, filter, rawTitle, title, url, category) ==
  IF /\ matchesFilter(filter, rawTitle, title)
     /\ category # ""
     /\ category \in validCategories(appType)
  THEN category
  ELSE ""

\* The same for VW: category and appType must both be set.
SlotVW(filter, rawTitle, title, found) ==
  IF /\ matchesFilter(filter, rawTitle, title)
     /\ found.category # ""
     /\ found.appType # ""
  THEN found.category
  ELSE ""

\* The category whose slot a link asks for on a surface.
SlotOf(appType, filter, download) ==
  IF appType = "ista-p"
  THEN SlotBMW(appType, filter, download.title, toLowerCase(download.title),
               toLowerCase(download.url),
               CategoryIstaP(toLowerCase(download.title),
                             toLowerCase(download.url)))
  ELSE IF appType = "ista-next"
  THEN SlotBMW(appType, filter, download.title, toLowerCase(download.title),
               toLowerCase(download.url),
               CategoryIstaNext(toLowerCase(download.title),
                                toLowerCase(download.url)))
  ELSE SlotVW(filter, download.title, toLowerCase(download.title),
              CategoryOdis(toLowerCase(download.title)))

\* The assignment without its !categorized[category] condition.
OccupyOverwriting(acc, category, download) ==
  IF category # ""
  THEN Put(acc, category, [title |-> download.title, url |-> download.url,
                           category |-> category])
  ELSE acc

\* if (category && ... && !categorized[category]) categorized[category] =
\* {...download, category, ...}; the entry keeps the link and its category.
Occupy(acc, category, download) ==
  IF category # "" /\ category \notin DOMAIN acc
  THEN Put(acc, category, [title |-> download.title, url |-> download.url,
                           category |-> category])
  ELSE acc

\* for (const download of downloads) from the i-th link on, acc being
\* categorized so far.
RECURSIVE CategorizeFrom(_, _, _, _, _)
CategorizeFrom(appType, filter, downloads, i, acc) ==
  IF i > Len(downloads) THEN acc
  ELSE CategorizeFrom(appType, filter, downloads, i + 1,
                      Occupy(acc, SlotOf(appType, filter, downloads[i]),
                             downloads[i]))

\* categorizeDownloads(downloads, appType) of BMW and categorizeDownloads(
\* downloads) of VW (appType "odis").
categorizeDownloads(downloads, appType, filter) ==
  CategorizeFrom(appType, filter, downloads, 1, EmptyMap)

\* The lists of at most n candidate links of a surface.
RECURSIVE LinkLists(_, _)
LinkLists(appType, n) ==
  IF n = 0 THEN { <<>> }
  ELSE LinkLists(appType, n - 1)
       \cup { Append(l, d) : l \in { x \in LinkLists(appType, n - 1) :
                                     Len(x) = n - 1 },
                             d \in CandidateLinks(appType) }

\* A call is about to be made: a surface, its allow-list and the links
\* found on its page.
InitCat ==
  /\ vendor = "bmw"
  /\ pc = "off"
  /\ mode = "none"
  /\ firstCycle = FALSE
  /\ now = 0
  /\ browser = "none"
  /\ sessionLive = FALSE
  /\ isLoggedIn = FALSE
  /\ metadata = EmptyMetadata
  /\ vendorFile = MissingFile
  /\ globalFile = EmptyGlobal
  /\ files = {}
  /\ surface = 1
  /\ updates = <<>>
  /\ succeeded = <<>>
  /\ failed = {}
  /\ lastPolicy = {}
  /\ lastScan = "none"
  /\ lastLogin = NoLogin
  /\ lastDl = NoDl
  /\ lastNotify = NoNotify
  /\ aggPc = [v \in Vendors |-> "idle"]
  /\ aggLocal = [v \in Vendors |-> EmptyGlobal]
  /\ aggSeq = [v \in Vendors |-> 0]
  /\ DashIdle
  /\ SigIdle
  /\ LoadIdle
  /\ UrlIdle
  /\ VerifyIdle
  /\ CallIdle
  /\ RepeatIdle
  /\ catPc = "input"
  /\ catAppType \in {"ista-p", "ista-next", "odis"}
  /\ catFilter \in FilterLists(catAppType)
  /\ catDownloads \in LinkLists(catAppType, MaxCandidates)
  /\ categorized = EmptyMap

\* BMWProvider.findDownloads calls categorizeDownloads(downloads, appType).
CategorizeBMW ==
  /\ catPc = "input"
  /\ catAppType \in {"ista-p", "ista-next"}
  /\ categorized' = categorizeDownloads(catDownloads, catAppType, catFilter)
  /\ catPc' = "done"
  /\ UNCHANGED <<mainVars, aggVars, dashVars, sigVars, loadVars, urlVars,
                 verifyVars, callVars, repeatVars, catAppType, catFilter,
                 catDownloads>>

\* VWProvider.findDownloads calls categorizeDownloads(foundDownloads).
CategorizeVW ==
  /\ catPc = "input"
  /\ catAppType = "odis"
  /\ categorized' = categorizeDownloads(catDownloads, catAppType, catFilter)
  /\ catPc' = "done"
  /\ UNCHANGED <<mainVars, aggVars, dashVars, sigVars, loadVars, urlVars,
                 verifyVars, callVars, repeatVars, catAppType, catFilter,
                 catDownloads>>

NextCat == CategorizeBMW \/ CategorizeVW

SpecCat == InitCat /\ [][NextCat]_vars

\* ------------------------------------------------- SIGINT / SIGTERM handler
\* The vendor loops keep running while the handler awaits manager.cleanup():
\* every action below is one await-to-await stretch of a loop or of the
\* handler, and process.exit ends them all.

\* initialize() -> launchBrowser() of a provider: at the start of run() or
\* of a single check, and in run()'s loop after its cleanup().
ProviderLaunch(v) ==
  /\ shutdown # "exited"
  /\ browsers[v] \in {"none", "closed"}
  /\ transfers[v] # "inflight"
  /\ browsers' = [browsers EXCEPT ![v] = "open"]
  /\ UNCHANGED <<mainVars, aggVars, dashVars, catVars, loadVars, urlVars,
                 verifyVars, callVars, repeatVars, shutdown, toClean,
                 transfers>>

\* cleanup() called by the provider's own loop or by runSingleCheck.
ProviderCleanup(v) ==
  /\ shutdown # "exited"
  /\ browsers[v] = "open"
  /\ transfers[v] # "inflight"
  /\ browsers' = [browsers EXCEPT ![v] = Closed(browsers[v])]
  /\ UNCHANGED <<mainVars, aggVars, dashVars, catVars, loadVars, urlVars,
                 verifyVars, callVars, repeatVars, shutdown, toClean,
                 transfers>>

\* downloadFile up to the piping of the axios response into the file: the
\* cookies are read from the browser context, which must be open.
TransferStart(v) ==
  /\ shutdown # "exited"
  /\ browsers[v] = "open"
  /\ transfers[v] # "inflight"
  /\ transfers' = [transfers EXCEPT ![v] = "inflight"]
  /\ UNCHANGED <<mainVars, aggVars, dashVars, catVars, loadVars, urlVars,
                 verifyVars, callVars, repeatVars, shutdown, toClean,
                 browsers>>

\* The write stream finishes or fails; the transfer needs the browser no
\* more.
TransferEnd(v) ==
  /\ shutdown # "exited"
  /\ transfers[v] = "inflight"
  /\ \E outcome \in {"done", "failed"} :
       transfers' = [transfers EXCEPT ![v] = outcome]
  /\ UNCHANGED <<mainVars, aggVars, dashVars, catVars, loadVars, urlVars,
                 verifyVars, callVars, repeatVars, shutdown, toClean,
                 browsers>>

\* process.on('SIGINT' | 'SIGTERM'): the handler starts manager.cleanup(),
\* which visits this.providers in insertion order.
Signal ==
  /\ shutdown = "none"
  /\ shutdown' = "cleaning"
  /\ toClean' = <<"bmw", "vw">>
  /\ UNCHANGED <<mainVars, aggVars, dashVars, catVars, loadVars, urlVars,
                 verifyVars, callVars, repeatVars, browsers, transfers>>

\* One iteration of manager.cleanup(): await provider.cleanup().  After the
\* last one the handler runs on to process.exit(0) with no await between.
HandlerCleanup ==
  /\ shutdown = "cleaning"
  /\ toClean # <<>>
  /\ browsers' = [browsers EXCEPT ![Head(toClean)] = Closed(@)]
  /\ toClean' = Tail(toClean)
  /\ shutdown' = IF Tail(toClean) = <<>> THEN "exited" ELSE "cleaning"
  /\ UNCHANGED <<mainVars, aggVars, dashVars, catVars, loadVars, urlVars,
                 verifyVars, callVars, repeatVars, transfers>>

NextSig ==
  \/ Signal
  \/ HandlerCleanup
  \/ \E v \in Vendors :
       \/ ProviderLaunch(v)
       \/ ProviderCleanup(v)
       \/ TransferStart(v)
       \/ TransferEnd(v)

SpecSig == InitAgg /\ [][NextSig]_vars

\* ------------------------------------------------- reading the state files
\* A state file on disk: absent ("missing": fs.readFile rejects), present
\* with text JSON.parse rejects ("garbage"), or present with the JSON of an
\* object ("json", value being the object).  For the first two, value is
\* the error the read or the parse throws.
FileMissing == [kind |-> "missing", value |-> [error |-> "ENOENT"]]

FileGarbage == [kind |-> "garbage", value |-> [error |-> "SyntaxError"]]

FileWith(object) == [kind |-> "json", value |-> object]

\* Vendor state files a provider can meet: none, an unparseable one, and
\* the files earlier cycles wrote.
VendorStateFiles ==
  {FileMissing, FileGarbage}
  \cup { FileWith([lastUpdate |-> t, downloads |-> d]) :
           t \in 0..MaxTime,
           d \in {EmptyMap}
                 \cup { Put(EmptyMap, "installer",
                            ArtifactRecord(a, TargetNames["bmw"][a], 1)) :
                          a \in {x \in Catalog("bmw") :
                                   x.category = "installer"} } }

\* Aggregate files: none, an unparseable one, and written ones.
AggregateFiles ==
  {FileMissing, FileGarbage}
  \cup { FileWith(EmptyGlobal) }
  \cup { FileWith(WithProvider(EmptyGlobal, v, EmptyMetadata, t)) :
           v \in Vendors, t \in 1..MaxTime }

\* A loadGlobalMetadata without its try/catch: the error gets out.
loadGlobalMetadataUnguarded(file) == file.value

\* MetadataManager.loadGlobalMetadata: the parsed object, or the default
\* object when readFile or JSON.parse throws.
loadGlobalMetadata(file) ==
  IF file.kind = "json" THEN file.value ELSE EmptyGlobal

\* A loadMetadata whose catch keeps what this.metadata held before.
loadMetadataKeeping(vfile, gfile, before) ==
  [metadata |-> IF vfile.kind = "json" THEN vfile.value ELSE before,
   threw |-> "providers" \notin DOMAIN loadGlobalMetadata(gfile)]

\* BaseProvider.loadMetadata with this.metadata = before on entry: the
\* parsed vendor file or, from the catch, the empty state; then
\* loadGlobalMetadata() and the look at globalMetadata.providers, which
\* throws a TypeError when the object has no providers.
loadMetadata(vfile, gfile, before) ==
  [metadata |-> IF vfile.kind = "json" THEN vfile.value ELSE EmptyMetadata,
   threw |-> "providers" \notin DOMAIN loadGlobalMetadata(gfile)]

\* Nothing has been loaded yet.
NotLoaded == [by |-> "none", metadata |-> EmptyMetadata,
              global |-> EmptyGlobal, threw |-> FALSE]

\* A provider holding its state of an earlier cycle is about to read the
\* files on disk.
InitLoad ==
  /\ vendor = "bmw"
  /\ pc = "off"
  /\ mode = "none"
  /\ firstCycle = FALSE
  /\ now = 0
  /\ browser = "none"
  /\ sessionLive = FALSE
  /\ isLoggedIn = FALSE
  /\ metadata = EmptyMetadata
  /\ vendorFile = MissingFile
  /\ globalFile = EmptyGlobal
  /\ files = {}
  /\ surface = 1
  /\ updates = <<>>
  /\ succeeded = <<>>
  /\ failed = {}
  /\ lastPolicy = {}
  /\ lastScan = "none"
  /\ lastLogin = NoLogin
  /\ lastDl = NoDl
  /\ lastNotify = NoNotify
  /\ aggPc = [v \in Vendors |-> "idle"]
  /\ aggLocal = [v \in Vendors |-> EmptyGlobal]
  /\ aggSeq = [v \in Vendors |-> 0]
  /\ DashIdle
  /\ CatIdle
  /\ SigIdle
  /\ UrlIdle
  /\ VerifyIdle
  /\ CallIdle
  /\ RepeatIdle
  /\ diskVendor \in VendorStateFiles
  /\ diskGlobal \in AggregateFiles
  /\ held \in { f.value : f \in {x \in VendorStateFiles : x.kind = "json"} }
  /\ loaded = NotLoaded

\* provider.initialize() -> loadMetadata().
LoadMetadata ==
  /\ loaded.by = "none"
  /\ \E r \in {loadMetadata(diskVendor, diskGlobal, held)} :
       /\ loaded' = [by |-> "loadMetadata", metadata |-> r.metadata,
                     global |-> loadGlobalMetadata(diskGlobal),
                     threw |-> r.threw]
       /\ held' = r.metadata
  /\ UNCHANGED <<mainVars, aggVars, dashVars, catVars, sigVars, urlVars,
                 verifyVars, callVars, repeatVars, diskVendor, diskGlobal>>

\* MetadataManager.loadGlobalMetadata() called on its own, as
\* getProviderStatus and updateProviderMetadata do.
LoadGlobalMetadata ==
  /\ loaded.by = "none"
  /\ loaded' = [by |-> "loadGlobalMetadata", metadata |-> held,
                global |-> loadGlobalMetadata(diskGlobal),
                threw |-> "error" \in DOMAIN loadGlobalMetadata(diskGlobal)]
  /\ UNCHANGED <<mainVars, aggVars, dashVars, catVars, sigVars, urlVars,
                 verifyVars, callVars, repeatVars, diskVendor, diskGlobal,
                 held>>

NextLoad == LoadMetadata \/ LoadGlobalMetadata

SpecLoad == InitLoad /\ [][NextLoad]_vars

\* ------------------------------------------------------ extractCleanFilename
\* URLs a portal can advertise: a path, a last path segment and a query
\* string ("" for none).
UrlPaths == {"https://h/dl/", "https://h/api/v2/downloads/", "https://h/"}

UrlSegments ==
  {"Installer.exe", "Tool_1.0.0.exe", "My%20Tool.zip", "Data.istapdata",
   "download", "DownloadODIS"}

UrlQueries ==
  {"", "?sig=abc&signed=true", "?id=3", "?id=3&signed=true&x=1",
   "?file=Setup.exe&dir=/pub/tools", "?next=https://h/login"}

Urls == { p \o s \o q : p \in UrlPaths, s \in UrlSegments, q \in UrlQueries }

\* No extractCleanFilename call under observation.
NotExtracted == [done |-> FALSE, fileName |-> ""]

\* A URL is about to be cleaned.
InitUrl ==
  /\ vendor = "bmw"
  /\ pc = "off"
  /\ mode = "none"
  /\ firstCycle = FALSE
  /\ now = 0
  /\ browser = "none"
  /\ sessionLive = FALSE
  /\ isLoggedIn = FALSE
  /\ metadata = EmptyMetadata
  /\ vendorFile = MissingFile
  /\ globalFile = EmptyGlobal
  /\ files = {}
  /\ surface = 1
  /\ updates = <<>>
  /\ succeeded = <<>>
  /\ failed = {}
  /\ lastPolicy = {}
  /\ lastScan = "none"
  /\ lastLogin = NoLogin
  /\ lastDl = NoDl
  /\ lastNotify = NoNotify
  /\ aggPc = [v \in Vendors |-> "idle"]
  /\ aggLocal = [v \in Vendors |-> EmptyGlobal]
  /\ aggSeq = [v \in Vendors |-> 0]
  /\ DashIdle
  /\ CatIdle
  /\ SigIdle
  /\ LoadIdle
  /\ urlGiven \in Urls
  /\ extracted = NotExtracted
  /\ VerifyIdle
  /\ CallIdle
  /\ RepeatIdle

\* downloadFile's first step: this.extractCleanFilename(download.url); null
\* is "".
ExtractCleanFilename ==
  /\ ~extracted.done
  /\ extracted' = [done |-> TRUE, fileName |-> extractCleanFilename(urlGiven)]
  /\ UNCHANGED <<mainVars, aggVars, dashVars, catVars, sigVars, loadVars,
                 verifyVars, callVars, repeatVars, urlGiven>>

NextUrl == ExtractCleanFilename

SpecUrl == InitUrl /\ [][NextUrl]_vars

\* ------------------------------------------------- VW login verification
\* The two identity markers checkLoginStatus looks for.
Markers == {"Angemeldet als", "iamneteu"}

\* What page.evaluate can meet in checkLoginStatus: the markers in the
\* page's text, a div.form-like with the markers in its text, or a throw
\* (no page, execution context destroyed).
PagesSeen ==
  { p \in [evaluates : BOOLEAN, body : SUBSET Markers, hasForm : BOOLEAN,
           form : SUBSET Markers] :
      /\ ~p.hasForm => p.form = {}
      /\ ~p.evaluates => (p.body = {} /\ ~p.hasForm) }

\* A status check that is content with either marker.
checkLoginStatusEitherMarker(p) ==
  /\ p.evaluates
  /\ \/ p.body # {}
     \/ p.hasForm /\ p.form # {}

\* checkLoginStatus: (hasAngemeldetAls && hasIamneteu) || foundInForm; false
\* when the evaluation throws.
checkLoginStatus(p) ==
  /\ p.evaluates
  /\ \/ ("Angemeldet als" \in p.body /\ "iamneteu" \in p.body)
     \/ p.hasForm /\ "Angemeldet als" \in p.form /\ "iamneteu" \in p.form

\* const maxAttempts = 10 of VWProvider.login.
maxAttempts == 10

\* The URLs page.url() can give after the checks.
CurrentUrls ==
  {"https://erwin.volkswagen.de/erwin/showHome.do",
   "https://www.volkswagen.de/de.html", "https://h/auth/login",
   "about:blank"}

\* The URL-based verification of the fallback.
UrlVerified(url) == Includes(url, "erwin") \/ Includes(url, "volkswagen")

\* A VW provider with an open browser is about to call login().
InitVerify ==
  /\ vendor = "vw"
  /\ pc = "off"
  /\ mode = "none"
  /\ firstCycle = FALSE
  /\ now = 0
  /\ browser = "open"
  /\ sessionLive = FALSE
  /\ isLoggedIn \in BOOLEAN
  /\ metadata = EmptyMetadata
  /\ vendorFile = MissingFile
  /\ globalFile = EmptyGlobal
  /\ files = {}
  /\ surface = 1
  /\ updates = <<>>
  /\ succeeded = <<>>
  /\ failed = {}
  /\ lastPolicy = {}
  /\ lastScan = "none"
  /\ lastLogin = NoLogin
  /\ lastDl = NoDl
  /\ lastNotify = NoNotify
  /\ aggPc = [v \in Vendors |-> "idle"]
  /\ aggLocal = [v \in Vendors |-> EmptyGlobal]
  /\ aggSeq = [v \in Vendors |-> 0]
  /\ DashIdle
  /\ CatIdle
  /\ SigIdle
  /\ LoadIdle
  /\ UrlIdle
  /\ VerifyIdle
  /\ CallIdle
  /\ RepeatIdle

\* VWProvider.login() up to its verification loop: true at once when
\* isLoggedIn is set; otherwise goto, the wait for the form, the entry of
\* the credentials and the click, each of which can throw into the catch
\* block (return false).
LoginSubmit ==
  /\ verifyPc = "idle"
  /\ IF isLoggedIn
     THEN /\ verifyPc' = "done"
          /\ loginResult' = "true"
     ELSE \E submitted \in BOOLEAN :
            IF submitted
            THEN /\ verifyPc' = "check"
                 /\ loginResult' = "none"
            ELSE /\ verifyPc' = "done"
                 /\ loginResult' = "false"
  /\ attempts' = 0
  /\ loginSuccess' = FALSE
  /\ UNCHANGED <<mainVars, aggVars, dashVars, catVars, sigVars, loadVars,
                 urlVars, callVars, repeatVars, pageSeen, currentUrl>>

\* One pass of while (!loginSuccess && attempts < maxAttempts): attempts++,
\* the 2 s wait, checkLoginStatus(); on success break, otherwise the page
\* snippet for the debug log (an evaluate outside any inner try: a throw
\* lands in login()'s catch) and the guarded waitForURL.
ContentCheck ==
  /\ verifyPc = "check"
  /\ ~loginSuccess /\ attempts < maxAttempts
  /\ attempts' = attempts + 1
  /\ \E p \in PagesSeen, snippetOk \in BOOLEAN :
       /\ pageSeen' = p
       /\ loginSuccess' = checkLoginStatus(p)
       /\ IF checkLoginStatus(p) \/ snippetOk
          THEN /\ verifyPc' = "check"
               /\ loginResult' = "none"
          ELSE /\ verifyPc' = "done"
               /\ loginResult' = "false"
  /\ UNCHANGED <<mainVars, aggVars, dashVars, catVars, sigVars, loadVars,
                 urlVars, callVars, repeatVars, currentUrl>>

\* After the loop: isLoggedIn = true and return true on loginSuccess;
\* otherwise the fallback on page.url(), which sets isLoggedIn and returns
\* true for a URL with 'erwin' or 'volkswagen' and throws for any other
\* (caught: return false).
Verdict ==
  /\ verifyPc = "check"
  /\ ~(~loginSuccess /\ attempts < maxAttempts)
  /\ verifyPc' = "done"
  /\ IF loginSuccess
     THEN /\ isLoggedIn' = TRUE
          /\ loginResult' = "true"
          /\ currentUrl' = currentUrl
     ELSE \E url \in CurrentUrls :
            /\ currentUrl' = url
            /\ isLoggedIn' = UrlVerified(url)
            /\ loginResult' = IF UrlVerified(url) THEN "true" ELSE "false"
  /\ UNCHANGED <<vendor, pc, mode, firstCycle, now, browser, sessionLive,
                 metadata, vendorFile, globalFile, files, surface, updates,
                 succeeded, failed, lastPolicy, lastScan, lastLogin, lastDl,
                 lastNotify, aggVars, dashVars, catVars, sigVars, loadVars,
                 urlVars, callVars, repeatVars, attempts, loginSuccess,
                 pageSeen>>

NextVerify ==
  \/ LoginSubmit
  \/ ContentCheck
  \/ Verdict

\* Every awaited browser call of login() settles (each has a timeout), so
\* a step that can be taken is taken.
SpecVerify == InitVerify /\ [][NextVerify]_vars /\ WF_vars(NextVerify)

\* ------------------------------------------------------- pure functions
\* Nothing runs but the call under observation.
OnlyACall ==
  /\ vendor = "vw"
  /\ pc = "off"
  /\ mode = "none"
  /\ firstCycle = FALSE
  /\ now = 0
  /\ browser = "none"
  /\ sessionLive = FALSE
  /\ isLoggedIn = FALSE
  /\ metadata = EmptyMetadata
  /\ vendorFile = MissingFile
  /\ globalFile = EmptyGlobal
  /\ files = {}
  /\ surface = 1
  /\ updates = <<>>
  /\ succeeded = <<>>
  /\ failed = {}
  /\ lastPolicy = {}
  /\ lastScan = "none"
  /\ lastLogin = NoLogin
  /\ lastDl = NoDl
  /\ lastNotify = NoNotify
  /\ aggPc = [v \in Vendors |-> "idle"]
  /\ aggLocal = [v \in Vendors |-> EmptyGlobal]
  /\ aggSeq = [v \in Vendors |-> 0]
  /\ DashIdle
  /\ CatIdle
  /\ SigIdle
  /\ LoadIdle
  /\ UrlIdle
  /\ VerifyIdle
  /\ RepeatIdle
  /\ callResult = NotCalled

\* ----------------------------------------- VWProvider.downloadFile's name
\* The downloads VW's downloadFile can be given: what the page showed as the
\* file's name, the link, the category and the extracted version.
OriginalFilenames == {"", "download", "a.ex", "ODIS.exe", "Odis_1.0.0.exe"}

DownloadUrls ==
  {"https://h/DownloadODIS?id=3", "https://h/dl/download?f=x.zip",
   "https://h/dl/a.ex", "https://h/dl/Setup.EXE", "https://h/dl/x.ZIP?d=.exe",
   "https://h/dl/d?f=a.istapdata", "https://h/dl/"}

DownloadsGiven ==
  { Art("odis", c, u, o, ver) :
      c \in {"installation", "update"}, u \in DownloadUrls,
      o \in OriginalFilenames, ver \in {"1.0.0", "unknown"} }

InitName ==
  /\ OnlyACall
  /\ callArgs \in DownloadsGiven

\* The first lines of VWProvider.downloadFile: the target file name.
ResolveFileName ==
  /\ ~callResult.done
  /\ callResult' = [done |-> TRUE, value |-> TargetFileName("vw", callArgs)]
  /\ UNCHANGED <<mainVars, aggVars, dashVars, catVars, sigVars, loadVars,
                 urlVars, verifyVars, repeatVars, callArgs>>

NextName == ResolveFileName

SpecName == InitName /\ [][NextName]_vars

\* ------------------------------------------------ VWProvider.extractVersion
\* The regular expressions of extractVersion as token lists: "D+" is \d+,
\* "D8", "D4", "D2" are \d{8}, \d{4}, \d{2}, "C*" is [A-Z-]*, any other
\* token is that character.
filenamePatterns ==
  << <<"D+", "_", "D+", "_", "D+", "C*", "_", "D8">>,
     <<"D+", "_", "D+", "_", "D+", "_", "D8">>,
     <<"D+", ".", "D+", ".", "D+", ".", "D+">>,
     <<"D+", ".", "D+", ".", "D+">>,
     <<"D+", "-", "D+", "-", "D+">>,
     <<"D4", "-", "D2", "-", "D2">> >>

urlPatterns ==
  << <<"D+", ".", "D+", ".", "D+", ".", "D+">>,
     <<"D+", ".", "D+", ".", "D+">>,
     <<"D+", "-", "D+", "-", "D+">> >>

\* The index just after the longest run of [A-Z-] of s that starts at i.
RECURSIVE ClassEnd(_, _)
ClassEnd(s, i) ==
  IF Ch(s, i) \in {"A", "B", "C", "D", "E", "F", "G", "H", "I", "J", "K", "L",
                   "M", "N", "O", "P", "Q", "R", "S", "T", "U", "V", "W", "X",
                   "Y", "Z", "-"}
  THEN ClassEnd(s, i + 1) ELSE i

\* The index just after the match of the tokens k.. of pat at index i of s,
\* or 0.  In these patterns each \d+ and the [A-Z-]* is followed by a
\* character outside its class, so the greedy match is the only one.
RECURSIVE MatchEnd(_, _, _, _)
MatchEnd(s, i, pat, k) ==
  IF k > Len(pat) THEN i
  ELSE IF pat[k] = "D+"
  THEN IF IsDigit(Ch(s, i)) THEN MatchEnd(s, DigitsEnd(s, i), pat, k + 1)
       ELSE 0
  ELSE IF pat[k] = "C*" THEN MatchEnd(s, ClassEnd(s, i), pat, k + 1)
  ELSE IF pat[k] = "D8"
  THEN IF DigitsExact(s, i, 8) # 0 THEN MatchEnd(s, i + 8, pat, k + 1) ELSE 0
  ELSE IF pat[k] = "D4"
  THEN IF DigitsExact(s, i, 4) # 0 THEN MatchEnd(s, i + 4, pat, k + 1) ELSE 0
  ELSE IF pat[k] = "D2"
  THEN IF DigitsExact(s, i, 2) # 0 THEN MatchEnd(s, i + 2, pat, k + 1) ELSE 0
  ELSE IF Ch(s, i) = pat[k] THEN MatchEnd(s, i + 1, pat, k + 1)
  ELSE 0

\* s.match(pattern)[1]: the leftmost match from index i on, "" for null.
RECURSIVE MatchFrom(_, _, _)
MatchFrom(s, pat, i) ==
  IF i > Len(s) THEN ""
  ELSE IF MatchEnd(s, i, pat, 1) # 0
  THEN SubSeq(s, i, MatchEnd(s, i, pat, 1) - 1)
  ELSE MatchFrom(s, pat, i + 1)

\* The loop over a pattern list: the match of the first pattern from the
\* k-th on that matches, "" when none does.
RECURSIVE FirstPatternMatch(_, _, _)
FirstPatternMatch(s, pats, k) ==
  IF k > Len(pats) THEN ""
  ELSE IF MatchFrom(s, pats[k], 1) # "" THEN MatchFrom(s, pats[k], 1)
  ELSE FirstPatternMatch(s, pats, k + 1)

\* An extractVersion that asks the URL before the filename.
extractVersionUrlFirst(url, filename) ==
  IF FirstPatternMatch(url, urlPatterns, 1) # ""
  THEN FirstPatternMatch(url, urlPatterns, 1)
  ELSE IF filename # "" /\ FirstPatternMatch(filename, filenamePatterns, 1) # ""
  THEN FirstPatternMatch(filename, filenamePatterns, 1)
  ELSE "unknown"

\* extractVersion(url, filename): the filename patterns when a filename is
\* given, then the URL patterns, then 'unknown'.
extractVersion(url, filename) ==
  IF filename # "" /\ FirstPatternMatch(filename, filenamePatterns, 1) # ""
  THEN FirstPatternMatch(filename, filenamePatterns, 1)
  ELSE IF FirstPatternMatch(url, urlPatterns, 1) # ""
  THEN FirstPatternMatch(url, urlPatterns, 1)
  ELSE "unknown"

\* The resolved filenames and the links extractVersion is called with.
VersionFilenames ==
  {"", "ODIS_25_1_0-EU_20250820.zip", "ODIS_25_1_0_20250820.zip",
   "Setup_3.74.0.930.exe", "Tool_4.53.30.exe", "FMC_04-25-10.zip",
   "Data_2025-02-03.zip", "Installer.exe", "Tool_v1.2.exe",
   "ODIS_25_1_0_2025082.zip"}

VersionUrls ==
  {"https://h/dl/Setup_9.9.9.exe", "https://h/dl/1.2.3.4/x",
   "https://h/dl/04-25-10/f", "https://h/DownloadODIS?id=3",
   "https://h/dl/25_1_0_20250820.zip", "https://h/dl/2025-02-03.zip"}

InitVersion ==
  /\ OnlyACall
  /\ callArgs \in [url : VersionUrls, filename : VersionFilenames]

ExtractVersion ==
  /\ ~callResult.done
  /\ callResult' = [done |-> TRUE,
                    value |-> extractVersion(callArgs.url, callArgs.filename)]
  /\ UNCHANGED <<mainVars, aggVars, dashVars, catVars, sigVars, loadVars,
                 urlVars, verifyVars, repeatVars, callArgs>>

NextVersion == ExtractVersion

SpecVersion == InitVersion /\ [][NextVersion]_vars

\* --------------------------------------- findDownloads: searchForDownloads
\* An element of the scanned document: a link (a[href]) with its href and
\* trimmed text, or a button (button, [role="button"]) with its onclick
\* attribute ("" for none) and trimmed text.
Element(kind, action, text) == [kind |-> kind, action |-> action, text |-> text]

PageElements ==
  {Element("a", "https://h/api/v2/downloads/Tool_1.0.0.exe", "Tool"),
   Element("a", "https://h/api/v2/downloads/Manual.PDF", "Manual"),
   Element("a", "https://h/api/v2/downloads/guide", "Guide.pdf"),
   Element("a", "https://h/about", "About"),
   Element("button", "download('Data_1.0.0.zip')", "Data"),
   Element("button", "download('Manual.pdf')", "Manual"),
   Element("button", "", "Download Readme.PDF"),
   Element("button", "next()", "Next")}

Pages == UNION { [1..n -> PageElements] : n \in 0..MaxElements }

\* The href test of the link loop: BMW wants '/api/v2/downloads', VW any of
\* its keywords.
LooksLikeDownload(v, href) ==
  IF v = "bmw" THEN Includes(href, "/api/v2/downloads")
  ELSE \/ Includes(href, "download") \/ Includes(href, "odis")
       \/ Includes(href, "fmc") \/ Includes(href, "software")
       \/ Includes(href, "update") \/ Includes(href, "installer")
       \/ Includes(href, "DownloadODIS") \/ Includes(href, "DownloadFMC")

\* links.forEach: PDF links are skipped, then the href test.
LinkFound(v, e) ==
  /\ e.kind = "a"
  /\ ~Includes(toLowerCase(e.action), ".pdf")
  /\ ~Includes(toLowerCase(e.text), ".pdf")
  /\ e.action # "" /\ LooksLikeDownload(v, e.action) /\ e.text # ""

\* buttons.forEach: BMW wants text and an onclick that includes 'download';
\* VW text and either that or 'download' in the lowercased text.
ButtonFound(v, e) ==
  /\ e.kind = "button"
  /\ e.text # ""
  /\ IF v = "bmw" THEN e.action # "" /\ Includes(e.action, "download")
     ELSE \/ Includes(e.action, "download")
          \/ Includes(toLowerCase(e.text), "download")

\* The candidate pushed for an element: title, url (a button's onclick, for
\* VW '#' when it has none) and method.
Candidate(v, e) ==
  [title |-> e.text,
   url |-> IF e.kind = "button" /\ v = "vw" /\ e.action = "" THEN "#"
           ELSE e.action,
   method |-> IF e.kind = "a" THEN "link_search" ELSE "button_search"]

RECURSIVE ScanLinks(_, _)
ScanLinks(v, els) ==
  IF els = <<>> THEN <<>>
  ELSE (IF LinkFound(v, Head(els)) THEN <<Candidate(v, Head(els))>> ELSE <<>>)
       \o ScanLinks(v, Tail(els))

RECURSIVE ScanButtons(_, _)
ScanButtons(v, els) ==
  IF els = <<>> THEN <<>>
  ELSE (IF ButtonFound(v, Head(els)) THEN <<Candidate(v, Head(els))>>
        ELSE <<>>)
       \o ScanButtons(v, Tail(els))

\* searchForDownloads(doc): the link loop, then the button loop.
searchForDownloads(v, els) == ScanLinks(v, els) \o ScanButtons(v, els)

InitScan ==
  /\ OnlyACall
  /\ callArgs \in [provider : Vendors, elements : Pages]

SearchForDownloads ==
  /\ ~callResult.done
  /\ callResult' =
       [done |-> TRUE,
        value |-> searchForDownloads(callArgs.provider, callArgs.elements)]
  /\ UNCHANGED <<mainVars, aggVars, dashVars, catVars, sigVars, loadVars,
                 urlVars, verifyVars, repeatVars, callArgs>>

NextScan == SearchForDownloads

SpecScan == InitScan /\ [][NextScan]_vars

\* ------------------------------------------------------ getBaseFileName
\* File names <base>_<version><ext> as the portals publish them.
FileBases == {"Tool", "Setup", "Data", "ODIS-Service", "ISTA_Client"}

FileVersions ==
  {"3.74.0.930", "4.53.30", "04-25-10", "2025-02-03", "25_1_0_20250820",
   "25_1_0-EU_20250820"}

FileExtensions == {".exe", ".zip", ".istapdata"}

InitBase ==
  /\ OnlyACall
  /\ callArgs \in [base : FileBases, version : FileVersions,
                   ext : FileExtensions]

\* cleanupSimilarFiles' this.getBaseFileName(file) on such a name.
GetBaseFileName ==
  /\ ~callResult.done
  /\ callResult' =
       [done |-> TRUE,
        value |-> getBaseFileName(callArgs.base \o "_" \o callArgs.version
                                    \o callArgs.ext)]
  /\ UNCHANGED <<mainVars, aggVars, dashVars, catVars, sigVars, loadVars,
                 urlVars, verifyVars, repeatVars, callArgs>>

NextBase == GetBaseFileName

SpecBase == InitBase /\ [][NextBase]_vars

\* ------------------------------------------------- the same portal, again
\* Two and more checks of one provider against a portal that shows the same
\* downloads at every check, in a browser that launches, with logins,
\* navigations and scans that succeed and transfers that are stored.
\* What the portal shows: for each surface one result of findDownloads.
Portals(v) ==
  { p \in [1..Len(Surfaces(v)) ->
             UNION {FoundMaps(v, Surfaces(v)[i]) : i \in 1..Len(Surfaces(v))}] :
      \A i \in 1..Len(Surfaces(v)) :
        p[i] \in FoundMaps(v, Surfaces(v)[i]) /\ WellCategorized(p[i]) }

\* What an earlier process left in the download directory: nothing, or one
\* stored artifact with its record in both state files.
PriorStates(v) ==
  {[metadata |-> EmptyMetadata, files |-> {}, vendorFile |-> MissingFile,
    globalFile |-> EmptyGlobal, fileName |-> "", result |-> FALSE]}
  \cup {DownloadFileResult(v, EmptyMetadata, {}, MissingFile, EmptyGlobal,
                           d, 0, "ok", "ok", "ok") : d \in Catalog(v)}

InitRepeat ==
  /\ vendor \in Vendors
  /\ pc = "off"
  /\ mode = "none"
  /\ firstCycle = FALSE
  /\ now = 0
  /\ browser = "none"
  /\ sessionLive = FALSE
  /\ isLoggedIn = FALSE
  /\ metadata = EmptyMetadata
  /\ \E prior \in PriorStates(vendor) :
       /\ vendorFile = prior.vendorFile
       /\ globalFile = prior.globalFile
       /\ files = prior.files
  /\ surface = 1
  /\ updates = <<>>
  /\ succeeded = <<>>
  /\ failed = {}
  /\ lastPolicy = {}
  /\ lastScan = "none"
  /\ lastLogin = NoLogin
  /\ lastDl = NoDl
  /\ lastNotify = NoNotify
  /\ aggPc = [v \in Vendors |-> "idle"]
  /\ aggLocal = [v \in Vendors |-> EmptyGlobal]
  /\ aggSeq = [v \in Vendors |-> 0]
  /\ DashIdle
  /\ CatIdle
  /\ SigIdle
  /\ LoadIdle
  /\ UrlIdle
  /\ VerifyIdle
  /\ CallIdle
  /\ portal \in Portals(vendor)

\* The candidates of a scan as the version policy saw them.
Judged(policy) == {<<e.category, e.next>> : e \in policy}

\* The candidates the portal shows on surface i.
Shown(p, i) == {<<c, p[i][c].version>> : c \in DOMAIN p[i]}

\* run() with a browser that launches.
RunStartLaunched == RunStart /\ pc' = "cfu"

\* runSingleCheck() with a browser that launches.
SingleStartLaunched == SingleStart /\ pc' = "cfu"

\* checkForUpdates' first lines with an authentication that succeeds.
EnsureLoginBMWVerified == EnsureLoginBMW /\ pc' = "nav"

EnsureLoginVWVerified == EnsureLoginVW /\ pc' = "nav"

\* The navigation reaches the surface.
NavigateBMWReached == NavigateBMW /\ pc' = "find"

NavigateVWReached == NavigateVW /\ pc' = "find"

\* findDownloads returns what the portal shows on the surface.
DiscoverShown ==
  /\ Discover
  /\ lastScan' = "ok"
  /\ Judged(lastPolicy') = Shown(portal, surface)

\* downloadFile stores the artifact and returns true.
DownloadNextStored == DownloadNext /\ lastDl'.result

\* The loop's next pass with a browser that launches.
SleepAndRecycleLaunched == SleepAndRecycle /\ pc' = "cfu"

NextRepeat ==
  \/ RunStartLaunched
  \/ SingleStartLaunched
  \/ EnsureLoginBMWVerified
  \/ EnsureLoginVWVerified
  \/ NavigateBMWReached
  \/ NavigateVWReached
  \/ DiscoverShown
  \/ DownloadNextStored
  \/ SurfaceDone
  \/ UpdateLastCheck
  \/ CycleEnd
  \/ SleepAndRecycleLaunched

SpecRepeat == InitRepeat /\ [][NextRepeat]_vars

\* ------------------------------------------------ cleanupOldVersions alone
\* The records this.metadata.downloads can hold for BMW's two categories:
\* for each none, or the record of a stored download.
CleanupRecords ==
  { m \in UNION {[S -> CleanupCatalog] : S \in SUBSET {"installer", "client"}} :
      \A c \in DOMAIN m : m[c].category = c }

\* The calls under observation: this.metadata, the directory's artifact
\* files, the vendor's state file, the download whose transfer is about to
\* start, and the outcome of cleanup's state-file write.
CleanupCalls ==
  { [metadata |-> [lastUpdate |-> 0,
                   downloads |->
                     [c \in DOMAIN m |->
                        ArtifactRecord(m[c], TargetFileName("bmw", m[c]), 0)]],
     files |-> fs, stateFile |-> sf, download |-> d, wc |-> wc] :
      m \in CleanupRecords,
      fs \in SUBSET {TargetFileName("bmw", x) : x \in CleanupCatalog},
      sf \in BOOLEAN, d \in CleanupCatalog, wc \in WriteOutcomes }

\* The vendor's state file of a call: written from this.metadata, or absent.
StateFileOf(a) == IF a.stateFile THEN WrittenFile(a.metadata) ELSE MissingFile

InitCleanup ==
  /\ OnlyACall
  /\ callArgs \in CleanupCalls

\* downloadFile's call cleanupOldVersions(download.category, fileName) with
\* the cleanupSimilarFiles it ends in.
CleanupBeforeTransfer ==
  /\ ~callResult.done
  /\ callResult' =
       [done |-> TRUE,
        value |-> CleanupOldVersions(
                    "bmw", callArgs.metadata, callArgs.files,
                    StateFileOf(callArgs), EmptyGlobal,
                    callArgs.download.category,
                    TargetFileName("bmw", callArgs.download), 1,
                    callArgs.wc)]
  /\ UNCHANGED <<mainVars, aggVars, dashVars, catVars, sigVars, loadVars,
                 urlVars, verifyVars, repeatVars, callArgs>>

NextCleanup == CleanupBeforeTransfer

SpecCleanup == InitCleanup /\ [][NextCleanup]_vars

\* ------------------------------------------------------------------ claims
\* The record a downloads map holds for a category, as a set of at most one.
RecordAt(downloads, c) == IF c \in DOMAIN downloads THEN {downloads[c]} ELSE {}

\* The record the aggregate file holds for a vendor's category.
GlobalRecordAt(g, v, c) ==
  IF v \in DOMAIN g.providers THEN RecordAt(g.providers[v].downloads, c)
  ELSE {}

\* The artifact files of a category in the vendor's directory.
FilesOfCategory(v, fs, c) ==
  {f \in fs : \E d \in Catalog(v) : d.category = c /\ TargetNames[v][d] = f}

\* C1: every decision of the filter loop follows the version policy: an
\* artifact is accepted when no version is recorded for its category (even
\* with version "unknown"); with a recorded version it is rejected when its
\* version is "unknown", and otherwise accepted exactly when its version
\* differs from the recorded one.
C1_VersionPolicy ==
  \A e \in lastPolicy :
    /\ e.prev = "" => e.accepted
    /\ (e.prev # "" /\ e.next = "unknown") => ~e.accepted
    /\ (e.prev # "" /\ e.next # "unknown") => (e.accepted <=> e.next # e.prev)

\* C1's case: the filter loop accepted an older version over the recorded
\* newer one.
C1_OlderVersionAccepted ==
  \E e \in lastPolicy : e.prev = "1.0.0" /\ e.next = "0.9.0" /\ e.accepted

\* C2: a downloadFile call whose transfer fails (request or stream error,
\* empty file) leaves the record this.metadata and the vendor's state file
\* hold for the artifact's category as it was before the call.
C2_FailedTransferKeepsRecord ==
  [][ (lastDl'.called /\ lastDl'.outcome # "ok")
      => /\ RecordAt(metadata'.downloads, lastDl'.category)
              = RecordAt(metadata.downloads, lastDl'.category)
         /\ RecordAt(vendorFile'.downloads, lastDl'.category)
              = RecordAt(vendorFile.downloads, lastDl'.category) ]_vars

C5_OneFilePerCategory ==
  \A c \in Categories : Cardinality(FilesOfCategory(vendor, files, c)) <= 1

C7_RunLoopNeverExits == mode = "run" => pc # "exited"

\* C8: when checkLoginStatus reports the session lost while isLoggedIn is
\* true, the login() call that follows does not find isLoggedIn still true
\* (it is cleared first, so the call authenticates again).
C8_FlagClearedBeforeRelogin ==
  (lastLogin.called /\ lastLogin.lost) => ~lastLogin.noop

\* C9: every login() call that returns false has emitted exactly one
\* login-failure notification, and every call that returns true none, for
\* both vendors.
C9_OneNotificationPerFailedLogin ==
  lastLogin.called =>
    lastLogin.notified = (IF lastLogin.result THEN 0 ELSE 1)

\* C10: when the vendor loops' calls of updateProviderMetadata interleave,
\* no update is lost: whenever no call is in flight, the aggregate file
\* holds for every vendor the entry of its latest update.
C10_NoLostUpdate ==
  (\A v \in Vendors : aggPc[v] = "idle")
  => \A v \in Vendors :
       aggSeq[v] > 0 =>
         /\ v \in DOMAIN globalFile.providers
         /\ globalFile.providers[v].lastUpdate = aggSeq[v]

\* C11: for one vendor at most one cycle and at most one download is in
\* progress at any time, also when a dashboard-triggered single check
\* arrives while the vendor's run() loop is active on the same instance.
C11_OneCyclePerVendor ==
  /\ Cardinality({t \in Tasks : InCycle(t)}) <= 1
  /\ Cardinality({t \in Tasks : Downloading(t)}) <= 1

\* C12: every checkForUpdates that returns after a successful login leaves
\* the vendor's lastUpdate, in the vendor's state file and in the aggregate
\* file, at a time not earlier than the cycle's start, for both vendors and
\* whether or not an artifact was found, accepted or downloaded.
C12_HeartbeatAfterLogin ==
  (pc = "cfuDone" /\ isLoggedIn)
  => /\ vendorFile.exists
     /\ vendorFile.lastUpdate >= now
     /\ vendor \in DOMAIN globalFile.providers
     /\ globalFile.providers[vendor].lastUpdate >= now

\* C13: over any sequence of cycles (successful, failed or skipped) and the
\* downloads within them, no write of the vendor's state file lowers its
\* lastUpdate (the clock never runs backwards).
C13_LastUpdateMonotone ==
  [][ (vendorFile.exists /\ vendorFile'.exists)
      => vendorFile'.lastUpdate >= vendorFile.lastUpdate ]_vars

\* C13's case: cleanupOldVersions rewrote the state file (the old record is
\* gone from it) with the lastUpdate of an earlier cycle, and the transfer
\* failed, so that no later write of the call refreshed it.
C13_WrittenWithOlderTime ==
  /\ lastDl.called /\ ~lastDl.result
  /\ lastDl.prevOnDisk /\ lastDl.prevFileName \notin {"", lastDl.fileName}
  /\ vendorFile.exists
  /\ lastDl.category \notin DOMAIN vendorFile.downloads
  /\ vendorFile.lastUpdate < now

\* C14: every operation that completes its writes (updateMetadata,
\* updateLastCheck, the record drop of cleanupOldVersions, cleanupOldMetadata)
\* leaves the downloads stored for the vendor in the aggregate file equal to
\* the downloads in the vendor's own state file.  The aggregate file is the
\* last file each of them writes.
C14_AggregateMatchesVendorFile ==
  [][ (globalFile' # globalFile /\ vendor \in DOMAIN globalFile'.providers)
      => globalFile'.providers[vendor].downloads = vendorFile'.downloads
    ]_vars

\* C15: an artifact whose transfer failed (request or stream error, empty
\* file) and that is discovered again, with no other transfer of its
\* category in between, is accepted by the filter loop and queued for
\* download again: no backoff, no known-bad marker.
C15_FailedTransferRetried ==
  \A e \in lastPolicy :
    e.retry => /\ e.accepted
               /\ \E i \in DOMAIN updates : updates[i].category = e.category

\* C15's case: the filter loop met an artifact whose last transfer failed.
C15_FailedArtifactSeenAgain ==
  \E e \in lastPolicy : e.retry /\ e.next # "unknown"

\* C16: every cycle of run() after the first begins checkForUpdates with a
\* relaunched browser (open, without the earlier session) and isLoggedIn
\* false, and every login() call of such a cycle authenticates anew.
C16_RecycledBeforeLaterCycles ==
  /\ (pc = "cfu" /\ mode = "run" /\ ~firstCycle)
       => (browser = "open" /\ ~sessionLive /\ ~isLoggedIn)
  /\ (mode = "run" /\ ~firstCycle /\ lastLogin.called) => ~lastLogin.noop

\* C16's case: a later cycle of run() has logged in at its start.
C16_LaterCycleLoggedIn ==
  /\ mode = "run" /\ ~firstCycle /\ pc = "nav" /\ surface = 1
  /\ lastLogin.called /\ lastLogin.result

\* C17: when login() fails at the start of checkForUpdates, the cycle ends
\* there: the failing step and the rest of the cycle do no navigation,
\* discovery or download, call login() no second time, and leave the
\* vendor's records, state files and artifact files as they were.
C17_FailedLoginSkipsCycle ==
  [][ /\ (pc = "cfu" /\ lastLogin'.called /\ ~lastLogin'.result)
           => /\ pc' = "cfuDone"
              /\ UNCHANGED <<metadata, vendorFile, globalFile, files>>
      /\ pc = "cfuDone"
           => /\ pc' \in {"off", "sleep"}
              /\ ~lastLogin'.called /\ ~lastDl'.called /\ lastPolicy' = {}
              /\ UNCHANGED <<metadata, vendorFile, globalFile, files>>
    ]_vars

\* C17's case: BMW's login() at the start of a cycle has failed.
C17_LoginFailedAtCycleStart ==
  vendor = "bmw" /\ pc = "cfuDone" /\ lastLogin.called /\ ~lastLogin.result

\* C18: no login() call lets an exception out, whichever step of it throws
\* and whether or not sending the failure notification throws: the call
\* returns true or false.
C18_LoginNeverThrows == lastLogin.called => ~lastLogin.threw

\* C18's case: BMW's login() failed at the verification and the mail of the
\* failure notification could not be sent.
C18_FailedLoginFailedMail ==
  /\ vendor = "bmw" /\ lastLogin.called /\ ~lastLogin.result
  /\ lastLogin.failAt = "verify" /\ lastLogin.mailFails

\* C19: login() called while isLoggedIn is true returns true at once: no
\* authentication step runs, no notification is emitted, no exception
\* leaves it, and isLoggedIn, the portal session and the browser stay as
\* they were.
C19_LoginNoOpWhenLoggedIn ==
  [][ (lastLogin'.called /\ lastLogin'.entry)
      => /\ lastLogin'.result /\ lastLogin'.noop
         /\ lastLogin'.notified = 0 /\ ~lastLogin'.threw
         /\ UNCHANGED <<isLoggedIn, sessionLive, browser>> ]_vars

\* C19's case: login() was entered with isLoggedIn true.
C19_LoginEnteredLoggedIn == lastLogin.called /\ lastLogin.entry

\* The category whose slot the i-th candidate link of the call asks for.
SlotAt(i) == SlotOf(catAppType, catFilter, catDownloads[i])

\* C20: categorizeDownloads returns one artifact per category at most, and
\* the artifact of each category in the output is the first candidate in
\* input order that passes the allow-list and is classified into that
\* category; later candidates of the category are discarded.
C20_FirstMatchWins ==
  catPc = "done" =>
    \A c \in DOMAIN categorized :
      /\ categorized[c].category = c
      /\ \E i \in 1..Len(catDownloads) :
           /\ SlotAt(i) = c
           /\ \A j \in 1..(i - 1) : SlotAt(j) # c
           /\ categorized[c].title = catDownloads[i].title
           /\ categorized[c].url = catDownloads[i].url

\* C20's case: two different candidate links of the input pass the
\* allow-list into the same category, and the call has returned.
C20_TwoCandidatesOneCategory ==
  /\ catPc = "done"
  /\ \E i, j \in 1..Len(catDownloads) :
       /\ i < j
       /\ SlotAt(i) # ""
       /\ SlotAt(i) = SlotAt(j)
       /\ catDownloads[i] # catDownloads[j]
       /\ SlotAt(i) \in DOMAIN categorized

\* The i-th candidate link of the call is on the allow-list.
AllowedAt(i) ==
  matchesFilter(catFilter, catDownloads[i].title,
                toLowerCase(catDownloads[i].title))

\* The text of the i-th candidate link contains "programmierdaten".
ProgrammingTextAt(i) ==
  Includes(toLowerCase(catDownloads[i].title), "programmierdaten")

\* C21: on the ista-next surface an allow-listed candidate whose text
\* contains "programmierdaten" takes the programming_data slot, never the
\* client one; from two allow-listed candidates, one of programming data
\* and one of the client, the result is exactly programming_data and
\* client, each holding its own candidate.
C21_ProgrammingDataBeforeClient ==
  (catPc = "done" /\ catAppType = "ista-next") =>
    /\ \A i \in 1..Len(catDownloads) :
         (AllowedAt(i) /\ ProgrammingTextAt(i))
           => SlotAt(i) = "programming_data"
    /\ \A i, j \in 1..Len(catDownloads) :
         ( /\ Len(catDownloads) = 2
           /\ AllowedAt(i) /\ ProgrammingTextAt(i)
           /\ AllowedAt(j) /\ SlotAt(j) = "client" )
         => /\ DOMAIN categorized = {"programming_data", "client"}
            /\ categorized["programming_data"].title = catDownloads[i].title
            /\ categorized["programming_data"].url = catDownloads[i].url
            /\ categorized["client"].title = catDownloads[j].title
            /\ categorized["client"].url = catDownloads[j].url

\* C21's case: the call was given a client candidate followed by a
\* programming-data candidate whose URL also satisfies the client rule,
\* both on the allow-list.
C21_ProgrammingAndClientGiven ==
  /\ catPc = "done" /\ catAppType = "ista-next"
  /\ Len(catDownloads) = 2
  /\ AllowedAt(1) /\ SlotAt(1) = "client"
  /\ AllowedAt(2) /\ ProgrammingTextAt(2)
  /\ Includes(toLowerCase(catDownloads[2].url), "istaoss")

\* C22: every artifact categorizeDownloads returns has a title that
\* contains, letter case aside, an entry of the surface's allow-list; with
\* an empty allow-list the result is empty whatever the input.
C22_OnlyAllowListed ==
  catPc = "done" =>
    /\ \A c \in DOMAIN categorized :
         \E k \in 1..Len(catFilter) :
           Includes(toLowerCase(categorized[c].title),
                    toLowerCase(catFilter[k]))
    /\ catFilter = <<>> => categorized = EmptyMap

\* The i-th candidate link would take a slot if the allow-list held it.
RuleMatchesAt(i) ==
  SlotOf(catAppType, <<"">>, catDownloads[i]) # ""

\* C22's case: the call held back a link that a category rule matches
\* because no allow-list entry is in its title, and let another through.
C22_LinkHeldBack ==
  /\ catPc = "done"
  /\ categorized # EmptyMap
  /\ \E i \in 1..Len(catDownloads) : RuleMatchesAt(i) /\ ~AllowedAt(i)

\* C23: for both vendors, the end of every surface's download pass emits
\* the new-artifacts notification if and only if at least one download of
\* the surface succeeded, listing exactly the artifacts downloaded, and no
\* other step emits one.
C23_NotifiedOncePerSurface ==
  [][ /\ pc = "surfaceDone"
           => /\ lastNotify'.sent <=> (succeeded # <<>>)
              /\ lastNotify'.sent => lastNotify'.updates = succeeded
      /\ pc # "surfaceDone" => ~lastNotify'.sent
    ]_vars

\* C24: a notification that cannot be delivered (service disabled, SMTP
\* error, exception in the email service) makes neither checkForUpdates
\* nor login() throw and changes nothing of the cycle: the surface ends as
\* it would have, the failed login returns false, and the records, both
\* state files and the artifact files stay as they were.
C24_DeliveryFailureAbsorbed ==
  [][ /\ (lastNotify'.sent /\ lastNotify'.delivery # "delivered")
           => /\ pc' = IF surface < Len(Surfaces(vendor)) THEN "nav"
                       ELSE "heartbeat"
              /\ UNCHANGED <<metadata, vendorFile, globalFile, files, failed>>
      /\ ( /\ lastLogin'.called /\ lastLogin'.notified > 0
           /\ lastLogin'.mailFails )
           => /\ ~lastLogin'.threw /\ ~lastLogin'.result
              /\ pc' = "cfuDone"
              /\ UNCHANGED <<metadata, vendorFile, globalFile, files, failed>>
    ]_vars

\* C24's case: the email service threw while sending the new-version
\* notification of a surface.
C24_NewVersionMailThrew == lastNotify.sent /\ lastNotify.delivery = "threw"

\* C25: when the process exits on SIGINT or SIGTERM, every provider's
\* browser has been closed and no transfer is cut off in flight.
C25_GracefulShutdown ==
  shutdown = "exited" =>
    \A v \in Vendors : browsers[v] # "open" /\ transfers[v] # "inflight"

\* C26: a vendor state file or aggregate file that is missing or cannot be
\* parsed loads as the empty default (lastUpdate null and no downloads; no
\* providers and lastGlobalUpdate null), and the load raises no error.
C26_UnreadableLoadsDefault ==
  /\ (loaded.by = "loadMetadata" /\ diskVendor.kind # "json")
       => loaded.metadata = EmptyMetadata /\ held = EmptyMetadata
  /\ (loaded.by # "none" /\ diskGlobal.kind # "json")
       => loaded.global = EmptyGlobal
  /\ ( /\ loaded.by # "none"
       /\ (diskVendor.kind # "json" \/ diskGlobal.kind # "json") )
       => ~loaded.threw

\* C26's case: loadMetadata has run on an unparseable vendor file beside a
\* missing aggregate file.
C26_GarbageAndMissingLoaded ==
  /\ loaded.by = "loadMetadata"
  /\ diskVendor.kind = "garbage"
  /\ diskGlobal.kind = "missing"

\* C27: for a URL with a query string, extractCleanFilename returns the
\* last segment of the URL's path (the text between the last '/' of the
\* path and the '?'), percent-decoded, whatever the query string holds.
C27_QueryStringStripped ==
  (extracted.done /\ Includes(urlGiven, "?"))
    => LET path == SubSeq(urlGiven, 1, IndexOf(urlGiven, "?") - 1)
           segment == SubSeq(path, LastIndexOf(path, "/") + 1, Len(path))
       IN extracted.fileName = decodeURIComponent(segment)

\* C28: isLoggedIn is true only if a login succeeded in the browsing context
\* that is open now: after every close or relaunch of the browser (the
\* loop's recycle, runSingleCheck's initialize and cleanup, the cleanup of
\* an error path) isLoggedIn is false when the next checkForUpdates starts.
C28_LoggedInOnlyInLiveContext ==
  (pc = "cfu" /\ isLoggedIn) => sessionLive

\* C29: within a cycle downloadFile is invoked only after a login succeeded
\* in that cycle (isLoggedIn is true, and the session of the cycle's
\* browsing context is the one the login opened), and only for the next
\* artifact of the list the version policy accepted in the same discovery
\* pass: a discovery pass leaves no artifact of a rejected category in the
\* list, and nothing but a discovery pass adds to the list.
C29_DownloadOnlyAcceptedAfterLogin ==
  [][/\ lastDl'.called =>
          /\ isLoggedIn
          /\ sessionLive
          /\ updates # <<>>
          /\ lastDl'.category = Head(updates).category
          /\ lastDl'.version = Head(updates).version
     /\ \A e \in lastPolicy' :
          ~e.accepted =>
             \A i \in DOMAIN updates' : updates'[i].category # e.category
     /\ lastPolicy' = {} =>
          \/ updates' \in {updates, <<>>}
          \/ updates # <<>> /\ updates' = Tail(updates)]_vars

\* C30: VW's login verification runs at most 10 content checks, declares
\* success at the first check that sees both identity markers (in the
\* page's text, or together inside the form-like container) and at no
\* other, reads the URL for the fallback only after 10 failed checks, and
\* login() always ends with true or false.
C30_VerificationBoundedAndDecided ==
  /\ [](attempts <= 10)
  /\ [](loginSuccess <=>
          /\ attempts > 0
          /\ pageSeen.evaluates
          /\ \/ Markers \subseteq pageSeen.body
             \/ pageSeen.hasForm /\ Markers \subseteq pageSeen.form)
  /\ [][loginSuccess => attempts' = attempts]_vars
  /\ []((verifyPc = "done" /\ loginSuccess) => loginResult = "true")
  /\ [](currentUrl # "" => (attempts = 10 /\ ~loginSuccess))
  /\ <>(verifyPc = "done" /\ loginResult \in {"true", "false"})

\* Witness for C30: login() returned true after a content check past the
\* first saw both markers, without reading the URL.
C30_MarkersSeenAfterFailedChecks ==
  /\ verifyPc = "done"
  /\ loginResult = "true"
  /\ loginSuccess
  /\ attempts > 1
  /\ currentUrl = ""

\* C31: when the page scan fails inside findDownloads, the surface has no
\* accepted artifact and the state is untouched; the step after it sends no
\* notification and downloads nothing (both counts stay 0), and goes on to
\* the next surface or, after the last one, to the lastUpdate heartbeat.
C31_FailedScanSkipsSurface ==
  [][/\ lastScan' = "failed" =>
          /\ updates' = <<>>
          /\ succeeded' = <<>>
          /\ pc' = "surfaceDone"
          /\ UNCHANGED <<metadata, files, vendorFile, globalFile, surface>>
     /\ lastScan = "failed" =>
          /\ ~lastDl'.called
          /\ ~lastNotify'.sent
          /\ succeeded' = <<>>
          /\ UNCHANGED <<metadata, files, vendorFile, globalFile>>
          /\ IF surface < Len(Surfaces(vendor))
             THEN pc' = "nav" /\ surface' = surface + 1
             ELSE pc' = "heartbeat"]_vars

\* Witness for C31: the scan of BMW's first surface just failed, in a
\* cycle of a provider that holds a record from an earlier download.
C31_ScanFailedOnFirstSurface ==
  /\ lastScan = "failed"
  /\ pc = "surfaceDone"
  /\ vendor = "bmw"
  /\ surface = 1
  /\ DOMAIN metadata.downloads # {}

\* C32: VW's downloadFile names the target after the vendor-reported
\* originalFilename when that has at least 5 characters and is not
\* "download"; else after the clean filename extracted from the URL under
\* the same two conditions; else <category>_<version><extension> with the
\* extension inferred from the URL (.exe, .zip, .istapdata, else .bin).
C32_TargetNameOrder ==
  callResult.done =>
    callResult.value =
      (IF Len(callArgs.originalFilename) >= 5
          /\ callArgs.originalFilename # "download"
       THEN callArgs.originalFilename
       ELSE IF Len(extractCleanFilename(callArgs.url)) >= 5
               /\ extractCleanFilename(callArgs.url) # "download"
       THEN extractCleanFilename(callArgs.url)
       ELSE callArgs.category \o "_" \o callArgs.version \o
            (IF Includes(toLowerCase(callArgs.url), ".exe") THEN ".exe"
             ELSE IF Includes(toLowerCase(callArgs.url), ".zip") THEN ".zip"
             ELSE IF Includes(toLowerCase(callArgs.url), ".istapdata")
             THEN ".istapdata"
             ELSE ".bin"))

\* C33: extractVersion returns the match of the first filename pattern, in
\* the order of the list, that matches the resolved filename; only when no
\* filename pattern matches, the match of the first URL pattern that
\* matches the URL; and "unknown" if and only if none matches either.
C33_FirstPatternWins ==
  callResult.done =>
    /\ \A k \in DOMAIN filenamePatterns :
         (/\ MatchFrom(callArgs.filename, filenamePatterns[k], 1) # ""
          /\ \A j \in 1..(k - 1) :
               MatchFrom(callArgs.filename, filenamePatterns[j], 1) = "")
           => callResult.value =
                MatchFrom(callArgs.filename, filenamePatterns[k], 1)
    /\ \A k \in DOMAIN urlPatterns :
         (/\ \A j \in DOMAIN filenamePatterns :
               MatchFrom(callArgs.filename, filenamePatterns[j], 1) = ""
          /\ MatchFrom(callArgs.url, urlPatterns[k], 1) # ""
          /\ \A j \in 1..(k - 1) :
               MatchFrom(callArgs.url, urlPatterns[j], 1) = "")
           => callResult.value = MatchFrom(callArgs.url, urlPatterns[k], 1)
    /\ callResult.value = "unknown" <=>
         /\ \A j \in DOMAIN filenamePatterns :
              MatchFrom(callArgs.filename, filenamePatterns[j], 1) = ""
         /\ \A j \in DOMAIN urlPatterns :
              MatchFrom(callArgs.url, urlPatterns[j], 1) = ""

\* Witness for C33: a filename with a four-part version won over a URL with
\* a three-part version.
C33_FilenameVersionOverUrl ==
  /\ callResult.done
  /\ callArgs.filename = "Setup_3.74.0.930.exe"
  /\ callArgs.url = "https://h/dl/Setup_9.9.9.exe"
  /\ callResult.value = "3.74.0.930"

\* C34: no candidate the page scan produces, from a link or from a button,
\* has ".pdf" in any letter case in its URL (or action) or in its text.
C34_NoPdfCandidate ==
  callResult.done =>
    \A i \in DOMAIN callResult.value :
      /\ ~Includes(toLowerCase(callResult.value[i].url), ".pdf")
      /\ ~Includes(toLowerCase(callResult.value[i].title), ".pdf")

\* C35: on the ista-next surface an allow-listed candidate whose URL
\* contains "ISTAOSS_ProgrammingData_" takes the programming_data slot and
\* is not returned as the client, also when its text lacks
\* "programmierdaten".
C35_ProgrammingDataByUrl ==
  (catPc = "done" /\ catAppType = "ista-next") =>
    \A i \in 1..Len(catDownloads) :
      ( /\ AllowedAt(i)
        /\ Includes(catDownloads[i].url, "ISTAOSS_ProgrammingData_")
        /\ ~ProgrammingTextAt(i) )
      => /\ SlotAt(i) = "programming_data"
         /\ ~( /\ "client" \in DOMAIN categorized
               /\ categorized["client"].url = catDownloads[i].url )

\* C36: for a file name <base>_<version><ext> whose version the version
\* extraction recognises in the name, getBaseFileName returns <base>.
C36_BaseNameWithoutVersion ==
  ( /\ callResult.done
    /\ extractVersion("", callArgs.base \o "_" \o callArgs.version
                            \o callArgs.ext) = callArgs.version )
  => callResult.value = callArgs.base

\* C37: between operations every record of the vendor's state names a file
\* that is in the vendor's directory.
C37_RecordedFilesExist ==
  \A c \in DOMAIN metadata.downloads :
    metadata.downloads[c].fileName \in files

\* C38: after a check in which every accepted artifact was stored, the next
\* check against the same candidates accepts none of them, calls no
\* downloadFile and deletes no file; of this.metadata only lastUpdate
\* changes.  (In SpecRepeat every check after the first follows such a check.)
C38_RepeatedCheckChangesNothing ==
  [][now' > 1 => /\ files' = files
                 /\ metadata'.downloads = metadata.downloads
                 /\ updates' = <<>>
                 /\ ~lastDl'.called
                 /\ \A e \in lastPolicy' : ~e.accepted]_vars

\* The second check has judged a candidate that the first check stored.
C38_StoredCandidateSeenAgain ==
  /\ now > 1
  /\ \E e \in lastPolicy :
       /\ e.prev = e.next
       /\ e.category \in DOMAIN metadata.downloads
       /\ metadata.downloads[e.category].downloadedAt = 1
       /\ metadata.downloads[e.category].fileName \in files

\* C39: the cleanup run for a download of category c deletes no file that the
\* record of another category names, no .json state file, and no file named
\* like the new target.
C39_CleanupKeepsOtherFiles ==
  callResult.done =>
    /\ \A c \in DOMAIN callArgs.metadata.downloads \ {callArgs.download.category} :
         callArgs.metadata.downloads[c].fileName \in callArgs.files
           => callArgs.metadata.downloads[c].fileName
                \in callResult.value.files
    /\ callArgs.stateFile => callResult.value.vendorFile.exists
    /\ TargetFileName("bmw", callArgs.download) \in callArgs.files
         => TargetFileName("bmw", callArgs.download)
              \in callResult.value.files

\* C40: the run() loops of the provider that are active.
RunLoops == {t \in Tasks : tasks[t].kind = "run"}

\* C40: a runProvider call for a provider in runningProviders starts no
\* second run() loop, and the provider is in runningProviders exactly while
\* a run() loop of it is active: at most one loop at any time.
C40_OneRunLoopPerProvider ==
  /\ Cardinality(RunLoops) <= 1
  /\ (vendor \in runningProviders) <=> (RunLoops # {})

\* A runProvider call was refused while the provider's loop is in a check.
C40_RefusedWhileRunning ==
  \E t \in Tasks, r \in Tasks :
    /\ tasks[t].kind = "refused"
    /\ tasks[r].kind = "run"
    /\ InCycle(r)
    /\ vendor \in runningProviders

====
